---- MODULE Spec2Model ----
(***************************************************************************)
(* A model of graphy's Google Chart API backend                            *)
(* (graphy/backends/google_chart_api.py): the two data codecs, the scale   *)
(* helper, parameter-name shortening, the parameter formatters and the     *)
(* encode entry points of BaseChartEncoder.                                *)
(*                                                                         *)
(* Conventions.                                                            *)
(*   - A Python number is an exact rational <<n, d>> with d > 0 in lowest  *)
(*     terms; None is the empty tuple <<>>.                                *)
(*   - A Python string is a sequence of one-character strings; opaque      *)
(*     caller tokens (a color, a marker shape) are one element long.       *)
(*   - A Python dict is a function from key strings to values.             *)
(***************************************************************************)
EXTENDS Integers, Sequences, FiniteSets, TLC

VARIABLES
  encoder,      \* codec under test: class name of the data encoder object
  data,         \* argument of Encode / _ScaleData
  encoded,      \* string returned by Encode(data)
  pc,           \* "start" before the call under test, "done" after it
  old_min,      \* arguments of _ScaleData
  old_max,
  new_min,
  new_max,
  scaled,       \* list returned by _ScaleData
  params,       \* argument of _ShortenParameterNames
  order,        \* order in which params.iteritems() visits the keys
  out,          \* outcome of _ShortenParameterNames(params)
  chart,        \* the caller's chart
  display,      \* chart.display, the encoder of the caller's chart
  answer,       \* the latest encode call on the chart as it is now, and
                \* its outcome
  threads       \* the threads that are inside a call of display.Url: the
                \* position, arguments and locals of each

codecVars == <<encoder, encoded>>
scaleVars == <<old_min, old_max, new_min, new_max, scaled>>
shortenVars == <<params, order, out>>
chartVars == <<chart, display, answer, threads>>

vars == <<data, pc, codecVars, scaleVars, shortenVars, chartVars>>

-----------------------------------------------------------------------------
(* Bounds of the model                                                     *)

\* longest sample sequence handed to a codec or to _ScaleData
MaxLen == 2
\* largest magnitude of a bound of the domain handed to _ScaleData
MaxDomain == 3
\* largest number of keys of a dict handed to _ShortenParameterNames
MaxKeys == 3
\* largest number of series of a chart
MaxSeries == 2
\* samples are drawn from the multiples of 1/Den
Den == 4

-----------------------------------------------------------------------------
(* Python numbers                                                          *)

None == <<>>

Abs(i) == IF i < 0 THEN -i ELSE i

RECURSIVE GCD(_, _)
GCD(a, b) == IF b = 0 THEN a ELSE GCD(b, a % b)

\* the rational n/d (d # 0) in lowest terms with a positive denominator
Rat(n, d) ==
  LET s == IF d < 0 THEN -1 ELSE 1
      g == GCD(Abs(n), Abs(d))
  IN  <<(s * n) \div g, (s * d) \div g>>

Num(i) == <<i, 1>>

IsInt(x) == x # None /\ x[2] = 1

RAdd(a, b) == Rat(a[1] * b[2] + b[1] * a[2], a[2] * b[2])
RSub(a, b) == Rat(a[1] * b[2] - b[1] * a[2], a[2] * b[2])
RMul(a, b) == Rat(a[1] * b[1], a[2] * b[2])
RDiv(a, b) == Rat(a[1] * b[2], a[2] * b[1])
RLt(a, b) == a[1] * b[2] < b[1] * a[2]
RLe(a, b) == a[1] * b[2] <= b[1] * a[2]

\* floor and ceiling of a rational, as integers
Floor(x) == x[1] \div x[2]
Ceil(x) == -((-x[1]) \div x[2])

\* a faulty round: int(x), truncation toward zero
round_truncating(x) == IF x[1] >= 0 THEN Floor(x) ELSE Ceil(x)

\* a faulty round: floor(x + 0.5) for every sign, ties toward +infinity
round_half_up(x) == Floor(RAdd(x, <<1, 2>>))

\* Python 2 round(x): half away from zero (floor(x+0.5) for x >= 0,
\* ceil(x-0.5) for x < 0)
round(x) ==
  IF x[1] >= 0 THEN Floor(RAdd(x, <<1, 2>>)) ELSE Ceil(RSub(x, <<1, 2>>))

-----------------------------------------------------------------------------
(* Python strings                                                          *)

ascii_uppercase ==
  <<"A", "B", "C", "D", "E", "F", "G", "H", "I", "J", "K", "L", "M",
    "N", "O", "P", "Q", "R", "S", "T", "U", "V", "W", "X", "Y", "Z">>

ascii_lowercase ==
  <<"a", "b", "c", "d", "e", "f", "g", "h", "i", "j", "k", "l", "m",
    "n", "o", "p", "q", "r", "s", "t", "u", "v", "w", "x", "y", "z">>

digits == <<"0", "1", "2", "3", "4", "5", "6", "7", "8", "9">>

\* delim.join(strs) for a sequence of strings
RECURSIVE StrJoinStrings(_, _)
StrJoinStrings(delim, strs) ==
  IF strs = <<>> THEN <<>>
  ELSE IF Len(strs) = 1 THEN strs[1]
  ELSE strs[1] \o delim \o StrJoinStrings(delim, Tail(strs))

-----------------------------------------------------------------------------
(* Numbers as text                                                         *)

RECURSIVE StrNat(_)
StrNat(n) ==
  IF n < 10 THEN <<digits[n + 1]>>
  ELSE StrNat(n \div 10) \o <<digits[(n % 10) + 1]>>

\* str(i) and '%d' % i for an integer i
StrInt(i) == IF i < 0 THEN <<"-">> \o StrNat(-i) ELSE StrNat(i)

\* int(x): truncation toward zero
int(x) == IF x[1] >= 0 THEN Floor(x) ELSE Ceil(x)

\* n/d > 0 brought into [1, 10): <<n', d', e>> with n/d = (n'/d') * 10^e
RECURSIVE Normalize10(_, _, _)
Normalize10(n, d, e) ==
  IF n < d THEN Normalize10(10 * n, d, e - 1)
  ELSE IF n >= 10 * d THEN Normalize10(n, 10 * d, e + 1)
  ELSE <<n, d, e>>

\* the next k decimal digits of r/d (0 <= r < d), followed by the remainder
RECURSIVE LongDivision(_, _, _)
LongDivision(r, d, k) ==
  IF k = 0 THEN <<r>>
  ELSE <<(10 * r) \div d>> \o LongDivision((10 * r) % d, d, k - 1)

\* a digit sequence plus one in the last place; the result is one digit
\* longer when every digit was 9
RECURSIVE Increment(_)
Increment(ds) ==
  IF ds = <<>> THEN <<1>>
  ELSE IF ds[Len(ds)] < 9 THEN [ds EXCEPT ![Len(ds)] = @ + 1]
  ELSE Increment(SubSeq(ds, 1, Len(ds) - 1)) \o <<0>>

\* s without its trailing "0" characters
RECURSIVE StripZeros(_)
StripZeros(s) ==
  IF s # <<>> /\ s[Len(s)] = "0" THEN StripZeros(SubSeq(s, 1, Len(s) - 1))
  ELSE s

Zeros(k) == [i \in 1..k |-> "0"]

\* the first prec digits of n/d in [1, 10), rounded to nearest (ties to
\* even) by the digits that follow; one digit longer when the rounding
\* carries into a new leading digit
RoundDigits(long, d, prec) ==
  IF 2 * long[prec + 1] > d
       \/ (2 * long[prec + 1] = d /\ long[prec] % 2 = 1)
  THEN Increment(SubSeq(long, 1, prec))
  ELSE SubSeq(long, 1, prec)

SignificantDigits(n, d, prec) ==
  RoundDigits(<<n \div d>> \o LongDivision(n % d, d, prec - 1), d, prec)

\* the text of sign, digit characters ds and decimal exponent e
FormatDigits(sign, ds, e, prec) ==
  IF e < -4 \/ e >= prec
  THEN sign \o <<ds[1]>>
         \o (IF Len(StripZeros(ds)) > 1
             THEN <<".">> \o Tail(StripZeros(ds)) ELSE <<>>)
         \o <<"e", IF e < 0 THEN "-" ELSE "+">>
         \o (IF Abs(e) < 10 THEN <<"0">> ELSE <<>>) \o StrNat(Abs(e))
  ELSE IF e >= 0
  THEN sign \o SubSeq(ds, 1, e + 1)
         \o (IF StripZeros(SubSeq(ds, e + 2, prec)) = <<>> THEN <<>>
             ELSE <<".">> \o StripZeros(SubSeq(ds, e + 2, prec)))
  ELSE sign \o <<"0", ".">> \o Zeros(-e - 1) \o StripZeros(ds)

\* the text of sign, rounded digits inc and the exponent e before rounding
FormatRounded(sign, inc, e, prec) ==
  FormatDigits(sign, [i \in 1..prec |-> digits[inc[i] + 1]],
               IF Len(inc) > prec THEN e + 1 ELSE e, prec)

\* the text of sign and the normalized value nrm = <<n, d, e>>
FormatNormalized(sign, nrm, prec) ==
  FormatRounded(sign, SignificantDigits(nrm[1], nrm[2], prec), nrm[3], prec)

\* '%.<prec>g' % x, the C conversion behind '%.3g' and behind str(float):
\* prec significant digits, rounded to nearest (ties to even), trailing
\* zeros removed, exponent form when the exponent is < -4 or >= prec
FormatG(x, prec) ==
  IF x[1] = 0 THEN <<"0">>
  ELSE FormatNormalized(IF x[1] < 0 THEN <<"-">> ELSE <<>>,
                        Normalize10(Abs(x[1]), x[2], 0), prec)

\* g, with '.0' appended when g looks like an integer
WithPointZero(g) ==
  IF \E i \in 1..Len(g) : g[i] \in {".", "e"} THEN g ELSE g \o <<".", "0">>

\* str(x) for a float x: '%.12g', with '.0' appended to a result that looks
\* like an integer
str_float(x) == WithPointZero(FormatG(x, 12))

\* str(x) for a number of the caller: an integral value is taken to be held
\* as an int and prints as its digits, any other value is a float
str(x) == IF IsInt(x) THEN StrInt(x[1]) ELSE str_float(x)

\* str(x) for an optional string x
StrOpt(x) == IF x = None THEN <<"N", "o", "n", "e">> ELSE x

\* Python 2 ordering of an optional number with a number: None sorts first
PyLt(a, b) == IF a = None THEN TRUE ELSE RLt(a, b)

\* least and greatest element of a non-empty set of numbers
RMin(S) == CHOOSE x \in S : \A y \in S : RLe(x, y)
RMax(S) == CHOOSE x \in S : \A y \in S : RLe(y, x)

-----------------------------------------------------------------------------
(* Python dicts and the outcome of a call                                  *)

EmptyDict == <<>>

\* d.get(k, default)
Get(d, k, default) == IF k \in DOMAIN d THEN d[k] ELSE default

\* d.update(e): entries of e override those of d
Update(d, e) == e @@ d

\* a call either returns a value or raises an exception
Return(v) == [value |-> v]
Raise(e) == [exception |-> e]
Raised(r) == "exception" \in DOMAIN r

\* the rest of a computation after a call: an exception of the call
\* propagates, a returned value goes on to F
Bind(r, F(_)) == IF Raised(r) THEN r ELSE F(r.value)

\* the same for a call that yields <<objects after the call, ..., outcome>>
BindLast(call, F(_)) == [call EXCEPT ![Len(call)] = Bind(@, F)]

\* every order in which the elements of S can be visited
RECURSIVE Orders(_)
Orders(S) ==
  IF S = {} THEN {<<>>}
  ELSE UNION {{<<x>> \o o : o \in Orders(S \ {x})} : x \in S}

-----------------------------------------------------------------------------
(* Parameter names                                                         *)

_LONG_NAMES ==
  [client_id |-> "chc", size |-> "chs", chart_type |-> "cht",
   axis_type |-> "chxt", axis_label |-> "chxl", axis_position |-> "chxp",
   axis_range |-> "chxr", axis_style |-> "chxs", data |-> "chd",
   label |-> "chl", y_label |-> "chly", data_label |-> "chld",
   data_series_label |-> "chdl", color |-> "chco", extra |-> "chp",
   right_label |-> "chlr", label_position |-> "chlp",
   y_label_position |-> "chlyp", right_label_position |-> "chlrp",
   grid |-> "chg", axis |-> "chx", axis_tick_marks |-> "chxtc",
   line_style |-> "chls", marker |-> "chm", fill |-> "chf",
   bar_height |-> "chbh", label_color |-> "chlc", signature |-> "sig",
   output_format |-> "chof", title |-> "chtt", title_style |-> "chts",
   callback |-> "callback"]

\* a faulty loop: a short name already present is silently overwritten
RECURSIVE ShortenLoop_overwriting(_, _, _)
ShortenLoop_overwriting(p, names, acc) ==
  IF names = <<>> THEN Return(acc)
  ELSE LET name == Head(names)
           short_name == Get(_LONG_NAMES, name, name)
       IN  ShortenLoop_overwriting(p, Tail(names),
                                   Update(acc, short_name :> p[name]))

_ShortenParameterNames_overwriting(p, names) ==
  ShortenLoop_overwriting(p, names, EmptyDict)

\* the loop of _ShortenParameterNames over the names still to visit
RECURSIVE ShortenLoop(_, _, _)
ShortenLoop(p, names, acc) ==
  IF names = <<>> THEN Return(acc)
  ELSE LET name == Head(names)
           short_name == Get(_LONG_NAMES, name, name)
       IN  IF short_name \in DOMAIN acc THEN Raise("KeyError")
           ELSE ShortenLoop(p, Tail(names), Update(acc, short_name :> p[name]))

\* _ShortenParameterNames(p), the keys being visited in the order names
_ShortenParameterNames(p, names) == ShortenLoop(p, names, EmptyDict)

-----------------------------------------------------------------------------
(* Charts (graphy.common, graphy.line_chart, graphy.bar_chart)             *)
(*                                                                         *)
(* A chart is a record: kind, data (sequence of series), the axes left,    *)
(* right, bottom and top, formatters (sequence of formatter names), the    *)
(* buffer of its auto_scale formatter, vertical, stacked, and the legend   *)
(* fields _show_legend and _legend_labels.  A series is a record: data     *)
(* (sequence of optional numbers), label and color (optional strings),     *)
(* style (None or <<width, on, off>>) and markers (sequence of             *)
(* <<x, <<shape, color, size>>>>).  An optional string is None or a        *)
(* non-empty string.                                                       *)

Axis(min, max) ==
  [min |-> min, max |-> max, labels |-> <<>>, label_positions |-> <<>>,
   grid_spacing |-> None, label_gridlines |-> FALSE]

DataSeries(points, color, style, markers, label) ==
  [data |-> points, color |-> color, style |-> style, markers |-> markers,
   label |-> label]

\* LineStyle.solid, the default pattern of AddLine
LineStyleSolid == <<Num(1), Num(1), Num(0)>>

DefaultFormatters == <<"auto_color", "auto_legend", "auto_scale">>

\* BaseChart.__init__ for a chart of the given kind
BaseChart(kind) ==
  [kind |-> kind, data |-> <<>>,
   left |-> Axis(None, None), right |-> Axis(None, None),
   bottom |-> Axis(None, None), top |-> Axis(None, None),
   formatters |-> DefaultFormatters, buffer |-> Rat(5, 100),
   vertical |-> TRUE, stacked |-> FALSE,
   _show_legend |-> FALSE, _legend_labels |-> <<>>]

\* names of the dependent axes, which depend on orientation for a bar chart
GetDependentAxes(c) ==
  IF c.kind = "BarChart" /\ ~c.vertical THEN <<"top", "bottom">>
  ELSE <<"left", "right">>

\* name of the main dependent axis
GetDependentAxis(c) ==
  IF c.kind = "BarChart" /\ ~c.vertical THEN "bottom" ELSE "left"

\* the (axis type code, axis name) pairs in the order of _GetAxes
_GetAxes == <<<<"y", "left">>, <<"r", "right">>, <<"x", "bottom">>,
              <<"t", "top">>>>

\* the present samples of all series
AllPoints(c) ==
  UNION {{c.data[i].data[j] : j \in 1..Len(c.data[i].data)} :
           i \in 1..Len(c.data)} \ {None}

\* BaseChart.GetMinMaxValues: smallest and largest sample
BaseGetMinMaxValues(c) ==
  IF AllPoints(c) = {} THEN Return(<<None, None>>)
  ELSE Return(<<RMin(AllPoints(c)), RMax(AllPoints(c))>>)

\* sum of the samples at bar position i that satisfy the sign test
RECURSIVE SumAt(_, _, _, _)
SumAt(series, k, i, positive) ==
  IF k > Len(series) THEN Num(0)
  ELSE LET rest == SumAt(series, k + 1, i, positive)
           d == series[k].data
       IN  IF i <= Len(d) /\ d[i] # None /\ d[i][1] # 0
                /\ (d[i][1] > 0) = positive
           THEN RAdd(d[i], rest) ELSE rest

\* the longest series
MaxBars(series) ==
  CHOOSE n \in {Len(series[k].data) : k \in 1..Len(series)} :
    \A k \in 1..Len(series) : Len(series[k].data) <= n

\* a faulty GetMinMaxValues: stacking is ignored
GetMinMaxValues_unstacked(c) == BaseGetMinMaxValues(c)

\* BarChart.GetMinMaxValues
GetMinMaxValues(c) ==
  IF c.kind # "BarChart" \/ ~c.stacked THEN BaseGetMinMaxValues(c)
  ELSE IF c.data = <<>> THEN Return(<<None, None>>)
  ELSE LET num_bars == MaxBars(c.data)
           positives == {SumAt(c.data, 1, i, TRUE) : i \in 1..num_bars}
           negatives == {SumAt(c.data, 1, i, FALSE) : i \in 1..num_bars}
       IN  IF num_bars = 0 THEN Raise("ValueError")  \* min() of an empty list
           ELSE Return(<<RMin(positives \cup negatives),
                         RMax(positives \cup negatives)>>)

\* the palette of the auto_color formatter
AutoColorPalette ==
  <<<<"0000ff">>, <<"ff0000">>, <<"00dd00">>, <<"000000">>>>

\* auto_color: give a color of the cyclic palette to each series lacking one
RECURSIVE AutoColorLoop(_, _, _)
AutoColorLoop(series, k, index) ==
  IF k > Len(series) THEN series
  ELSE IF series[k].color # None THEN AutoColorLoop(series, k + 1, index)
  ELSE LET next == IF index + 1 >= Len(AutoColorPalette) THEN 0
                   ELSE index + 1
       IN  AutoColorLoop([series EXCEPT ![k].color = AutoColorPalette[next + 1]],
                         k + 1, next)

AutoColor(c) == Return([c EXCEPT !.data = AutoColorLoop(c.data, 1, -1)])

\* auto_legend: show a legend if any series has a label
AutoLegend(c) ==
  LET show == \E k \in 1..Len(c.data) : c.data[k].label # None
      labels == [k \in 1..Len(c.data) |-> c.data[k].label]
  IN  Return(IF show THEN [c EXCEPT !._show_legend = TRUE,
                                    !._legend_labels = labels]
             ELSE [c EXCEPT !._show_legend = FALSE])

\* the bound an explicit dependent axis imposes, the last set axis winning
RECURSIVE ExplicitBound(_, _, _, _)
ExplicitBound(c, names, field, value) ==
  IF names = <<>> THEN value
  ELSE ExplicitBound(c, Tail(names), field,
                     IF c[Head(names)][field] # None
                     THEN c[Head(names)][field] ELSE value)

\* every dependent axis gets the bounds it lacks
RECURSIVE FillBounds(_, _, _, _)
FillBounds(c, names, lo, hi) ==
  IF names = <<>> THEN c
  ELSE LET a == c[Head(names)]
           filled == [a EXCEPT !.min = IF @ = None THEN lo ELSE @,
                               !.max = IF @ = None THEN hi ELSE @]
       IN  FillBounds([c EXCEPT ![Head(names)] = filled], Tail(names), lo, hi)

\* auto_scale: the unset bounds of the dependent axes become the data's
\* minimum and maximum, widened by buffer times the range
WidenBounds(c, names, min_value, max_value, buffer) ==
  FillBounds(c, names, RSub(min_value, buffer), RAdd(max_value, buffer))

ScaleAxes(c, names, min_value, max_value) ==
  WidenBounds(c, names, min_value, max_value,
              RMul(RSub(max_value, min_value), c.buffer))

AutoScale(c) ==
  IF c.data = <<>> THEN Return(c)
  ELSE Bind(GetMinMaxValues(c), LAMBDA mm :
         IF mm[1] = None \/ mm[2] = None THEN Return(c)
         ELSE Return(ScaleAxes(c, GetDependentAxes(c),
                ExplicitBound(c, GetDependentAxes(c), "min", mm[1]),
                ExplicitBound(c, GetDependentAxes(c), "max", mm[2]))))

\* LabelSeparator: the spacing in use is the requested one, or the even
\* share of the axis range between the labels when that is smaller
FittingSpacing(axis, spacing) ==
  IF axis.min = None \/ axis.max = None THEN spacing
  ELSE LET room == RDiv(RSub(axis.max, axis.min),
                        Num(Len(axis.label_positions) - 1))
       IN  IF RLt(room, spacing) THEN room ELSE spacing

\* first pass, from the highest label down from index i: a label closer
\* than the spacing to the one above it moves down, not below the axis
\* minimum
RECURSIVE MoveDown(_, _, _, _)
MoveDown(positions, i, spacing, min) ==
  IF i > Len(positions) THEN positions
  ELSE LET wanted == RSub(positions[i - 1], spacing)
           moved == IF min # None /\ RLt(wanted, min) THEN min ELSE wanted
       IN  MoveDown(IF RLt(RSub(positions[i - 1], positions[i]), spacing)
                    THEN [positions EXCEPT ![i] = moved] ELSE positions,
                    i + 1, spacing, min)

\* second pass, from the lowest label up from index i: a label closer than
\* the spacing to the one below it moves up, not above the axis maximum
RECURSIVE MoveUp(_, _, _, _)
MoveUp(positions, i, spacing, max) ==
  IF i < 1 THEN positions
  ELSE LET wanted == RAdd(positions[i + 1], spacing)
           moved == IF max # None /\ RLt(max, wanted) THEN max ELSE wanted
       IN  MoveUp(IF RLt(RSub(positions[i], positions[i + 1]), spacing)
                  THEN [positions EXCEPT ![i] = moved] ELSE positions,
                  i - 1, spacing, max)

\* the two passes over positions that run from the highest to the lowest
SeparatePositions(positions, spacing, min, max) ==
  MoveUp(MoveDown(positions, 2, spacing, min), Len(positions) - 1, spacing,
         max)

\* LabelSeparator on one axis: only the positions change
AdjustLabels(axis, spacing) ==
  IF spacing = None \/ Len(axis.label_positions) <= 1 THEN axis
  ELSE [axis EXCEPT !.label_positions =
          SeparatePositions(@, FittingSpacing(axis, spacing), axis.min,
                            axis.max)]

\* the axes of the given names adjusted, each with its own spacing
RECURSIVE AdjustAxes(_, _)
AdjustAxes(c, names) ==
  IF names = <<>> THEN c
  ELSE AdjustAxes([c EXCEPT ![Head(names)] =
                     AdjustLabels(@, c.separation[Head(names)])],
                  Tail(names))

\* formatters.LabelSeparator(left, right, bottom) called on the chart
LabelSeparator(c) == Return(AdjustAxes(c, <<"left", "right", "bottom">>))

\* the formatter of BaseChartTest.testFormattersWorkOnCopy: chart.data.pop()
MaliciousFormatter(c) ==
  IF c.data = <<>> THEN Raise("IndexError")
  ELSE Return([c EXCEPT !.data = SubSeq(@, 1, Len(@) - 1)])

\* formatter(chart) for a chart formatter given by name
CallFormatter(name, c) ==
  CASE name = "auto_color" -> AutoColor(c)
    [] name = "auto_legend" -> AutoLegend(c)
    [] name = "auto_scale" -> AutoScale(c)
    [] name = "MaliciousFormatter" -> MaliciousFormatter(c)
    [] name = "LabelSeparator" -> LabelSeparator(c)

\* the formatters run in order on the scratchpad until one raises
RECURSIVE RunChartFormatters(_, _)
RunChartFormatters(names, scratchpad) ==
  IF names = <<>> THEN Return(scratchpad)
  ELSE Bind(CallFormatter(Head(names), scratchpad),
            LAMBDA formatted : RunChartFormatters(Tail(names), formatted))

\* copy.deepcopy(c): a copy that shares nothing with c
deepcopy(c) == c

\* chart.GetFormattedChart(): <<the caller's chart after the call, the
\* outcome (the formatted scratchpad, or the exception of a formatter)>>
GetFormattedChart(c) == <<c, RunChartFormatters(c.formatters, deepcopy(c))>>

-----------------------------------------------------------------------------
(* Data codecs: _SimpleDataEncoder and _EnhancedDataEncoder                *)

SimpleCode == ascii_uppercase \o ascii_lowercase \o digits

EnhancedChars == ascii_uppercase \o ascii_lowercase \o digits \o <<"-", ".">>

\* a faulty table: [y + x for x in chars for y in chars]
EnhancedCode_swapped ==
  [i \in 1..(Len(EnhancedChars) * Len(EnhancedChars)) |->
     <<EnhancedChars[((i - 1) % Len(EnhancedChars)) + 1],
       EnhancedChars[((i - 1) \div Len(EnhancedChars)) + 1]>>]

\* [x + y for x in chars for y in chars]
EnhancedCode ==
  [i \in 1..(Len(EnhancedChars) * Len(EnhancedChars)) |->
     <<EnhancedChars[((i - 1) \div Len(EnhancedChars)) + 1],
       EnhancedChars[((i - 1) % Len(EnhancedChars)) + 1]>>]

\* the encoder object built by __init__
_SimpleDataEncoder ==
  [prefix |-> <<"s", ":">>, min |-> 0, max |-> Len(SimpleCode) - 1,
   placeholder |-> <<"_">>]

_EnhancedDataEncoder ==
  [prefix |-> <<"e", ":">>, min |-> 0, max |-> Len(EnhancedCode) - 1,
   placeholder |-> <<"_", "_">>]

EncoderNames == {"_SimpleDataEncoder", "_EnhancedDataEncoder"}

EncoderObject(name) ==
  IF name = "_SimpleDataEncoder" THEN _SimpleDataEncoder
  ELSE _EnhancedDataEncoder

\* self.code[i] for a Python index i
Code(name, i) ==
  IF name = "_SimpleDataEncoder" THEN <<SimpleCode[i + 1]>>
  ELSE EnhancedCode[i + 1]

_EncodeItem(name, x) ==
  LET self == EncoderObject(name) IN
  IF x = None THEN self.placeholder
  ELSE LET xi == round(x) IN
       IF xi < self.min \/ xi > self.max THEN self.placeholder
       ELSE Code(name, xi)

Encode(name, d) ==
  StrJoinStrings(<<>>, [i \in 1..Len(d) |-> _EncodeItem(name, d[i])])

-----------------------------------------------------------------------------
(* _ScaleData                                                              *)

\* a faulty _ScaleData: translate forgets the scaled old_min
_ScaleData_untranslated(d, omin, omax, nmin, nmax) ==
  LET scale == IF omin = omax THEN Num(1)
               ELSE RDiv(RSub(nmax, nmin), RSub(omax, omin))
      translate == RSub(nmin, omin)
      ScalePoint(x) == IF x = None THEN None
                       ELSE RAdd(RMul(scale, x), translate)
  IN  [i \in 1..Len(d) |-> ScalePoint(d[i])]

_ScaleData(d, omin, omax, nmin, nmax) ==
  LET scale == IF omin = omax THEN Num(1)
               ELSE RDiv(RSub(nmax, nmin), RSub(omax, omin))
      translate == RSub(nmin, RMul(scale, omin))
      ScalePoint(x) == IF x = None THEN None
                       ELSE RAdd(RMul(scale, x), translate)
  IN  [i \in 1..Len(d) |-> ScalePoint(d[i])]

-----------------------------------------------------------------------------
(* Joining                                                                 *)

_JOIN_DELIMS ==
  [data |-> <<",">>, color |-> <<",">>, line_style |-> <<"|">>,
   marker |-> <<"|">>, axis_type |-> <<",">>, axis_range |-> <<"|">>,
   axis_label |-> <<"|">>, axis_position |-> <<"|">>,
   axis_tick_marks |-> <<"|">>, data_series_label |-> <<"|">>,
   label |-> <<"|">>, bar_height |-> <<",">>]

\* _JoinLists(**args) for a dict of lists whose elements str() has already
\* turned into strings
_JoinLists(args) ==
  [key \in DOMAIN args |->
     IF args[key] # <<>> THEN StrJoinStrings(_JOIN_DELIMS[key], args[key])
     ELSE <<>>]

\* the keys of a dict in the order in which the dict iterates over them
RECURSIVE KeysInOrder(_)
KeysInOrder(S) ==
  IF S = {} THEN <<>>
  ELSE LET k == CHOOSE k \in S : TRUE IN <<k>> \o KeysInOrder(S \ {k})

-----------------------------------------------------------------------------
(* BaseChartEncoder and its subclasses                                     *)
(*                                                                         *)
(* An encoder (chart.display) is a record: class, extra_params, url_base,  *)
(* formatters (sequence of method names), enhanced_encoding, escape_url,   *)
(* _width, _height and, for a BarChartEncoder, style (None or              *)
(* <<bar_thickness, bar_gap, group_gap>>, each None or a number).          *)
(* A value of the parameter dict is held as the string str() makes of it.  *)

BaseFormatters ==
  <<"_GetLegendParams", "_GetDataSeriesParams", "_GetAxisParams",
    "_GetGridParams", "_GetType", "_GetExtraParams", "_GetSizeParams">>

\* _GetFormatters of the encoder class
_GetFormatters(class) ==
  IF class = "BarChartEncoder"
  THEN BaseFormatters \o <<"_ZeroPoint", "_ApplyBarStyle">>
  ELSE BaseFormatters

\* __init__ of the encoder class for charts of the given kind
ChartEncoder(class) ==
  [class |-> class, extra_params |-> EmptyDict,
   url_base |-> <<"http://chart.apis.google.com/chart">>,
   formatters |-> _GetFormatters(class), enhanced_encoding |-> FALSE,
   escape_url |-> TRUE, _width |-> Num(0), _height |-> Num(0),
   style |-> None, is3d |-> FALSE]

\* the encoder class the chart factories pair with each kind of chart
DisplayClass(kind) ==
  CASE kind = "LineChart" -> "LineChartEncoder"
    [] kind = "Sparkline" -> "SparklineEncoder"
    [] kind = "BarChart" -> "BarChartEncoder"
    [] kind = "PieChart" -> "PieChartEncoder"

_GetSizeParams(self, c) ==
  Return([size |-> StrInt(int(self._width)) \o <<"x">>
                     \o StrInt(int(self._height))])

_GetExtraParams(self, c) == Return(self.extra_params)

_GetDataEncoder(self, c) ==
  IF ~self.enhanced_encoding THEN "_SimpleDataEncoder"
  ELSE "_EnhancedDataEncoder"

_GetLegendParams(self, c) ==
  IF c._show_legend
  THEN Return(_JoinLists([data_series_label |->
         [k \in 1..Len(c._legend_labels) |-> c._legend_labels[k]]]))
  ELSE Return(EmptyDict)

\* a faulty _EncodeData: the two bounds are not checked to be set together
_EncodeData_unchecked(c, series, y_min, y_max, name) ==
  LET e == EncoderObject(name)
      encoded_series ==
        [k \in 1..Len(series) |->
           IF y_min # None /\ y_max # None
           THEN Encode(name, _ScaleData(series[k], y_min, y_max, Num(e.min),
                                        Num(e.max)))
           ELSE Encode(name, series[k])]
  IN  Return([data |-> e.prefix \o _JoinLists([data |-> encoded_series]).data])

_EncodeData(c, series, y_min, y_max, name) ==
  IF (y_min = None) # (y_max = None) THEN Raise("AssertionError")
  ELSE
    LET e == EncoderObject(name)
        _ScaleAndEncode(sr) ==
          Encode(name, _ScaleData(sr, y_min, y_max, Num(e.min), Num(e.max)))
        encoded_series ==
          [k \in 1..Len(series) |->
             IF y_min # None THEN _ScaleAndEncode(series[k])
             ELSE Encode(name, series[k])]
        result == _JoinLists([data |-> encoded_series])
    IN  Return([result EXCEPT !.data = e.prefix \o @])

\* the text of the markers of one series, i being the series index written
MarkerStrings(series, i) ==
  [k \in 1..Len(series.markers) |->
     LET x == series.markers[k][1]
         marker == series.markers[k][2]
     IN  StrJoinStrings(<<",">>, <<marker[1], marker[2], StrInt(i), str(x),
                                   str(marker[3])>>)]

StyleString(style) ==
  str(style[1]) \o <<",">> \o str(style[2]) \o <<",">> \o str(style[3])

\* a faulty loop: empty series are not dropped
RECURSIVE DataSeriesLoop_keeping_empty(_, _, _)
DataSeriesLoop_keeping_empty(chartdata, i, acc) ==
  IF i >= Len(chartdata) THEN Return(acc)
  ELSE LET series == chartdata[i + 1] IN
       IF series.style = None /\ acc.styles # <<>>
       THEN Raise("AssertionError")
       ELSE DataSeriesLoop_keeping_empty(chartdata, i + 1,
              [series_data |-> Append(acc.series_data, series.data),
               colors |-> Append(acc.colors, StrOpt(series.color)),
               styles |-> IF series.style # None
                          THEN Append(acc.styles, StyleString(series.style))
                          ELSE acc.styles,
               markers |-> acc.markers \o MarkerStrings(series, i)])

\* the loop of _GetDataSeriesParams over chart.data from Python index i
RECURSIVE DataSeriesLoop(_, _, _)
DataSeriesLoop(chartdata, i, acc) ==
  IF i >= Len(chartdata) THEN Return(acc)
  ELSE LET series == chartdata[i + 1] IN
       IF series.data = <<>> THEN DataSeriesLoop(chartdata, i + 1, acc)
       ELSE IF series.style = None /\ acc.styles # <<>>
       THEN Raise("AssertionError")
       ELSE DataSeriesLoop(chartdata, i + 1,
              [series_data |-> Append(acc.series_data, series.data),
               colors |-> Append(acc.colors, StrOpt(series.color)),
               styles |-> IF series.style # None
                          THEN Append(acc.styles, StyleString(series.style))
                          ELSE acc.styles,
               markers |-> acc.markers \o MarkerStrings(series, i)])

\* a faulty _GetDataSeriesParams: the bounds are those of the bottom axis
_GetDataSeriesParams_bottom_axis(self, c) ==
  Bind(DataSeriesLoop(c.data, 0,
         [series_data |-> <<>>, colors |-> <<>>, styles |-> <<>>,
          markers |-> <<>>]),
       LAMBDA lists :
         Bind(_EncodeData(c, lists.series_data, c.bottom.min, c.bottom.max,
                          _GetDataEncoder(self, c)),
              LAMBDA result :
                Return(Update(result,
                         _JoinLists([color |-> lists.colors,
                                     line_style |-> lists.styles,
                                     marker |-> lists.markers])))))

_GetDataSeriesParams(self, c) ==
  Bind(DataSeriesLoop(c.data, 0,
         [series_data |-> <<>>, colors |-> <<>>, styles |-> <<>>,
          markers |-> <<>>]),
       LAMBDA lists :
         Bind(_EncodeData(c, lists.series_data, c[GetDependentAxis(c)].min,
                          c[GetDependentAxis(c)].max, _GetDataEncoder(self, c)),
              LAMBDA result :
                Return(Update(result,
                         _JoinLists([color |-> lists.colors,
                                     line_style |-> lists.styles,
                                     marker |-> lists.markers])))))

Reverse(sq) == [k \in 1..Len(sq) |-> sq[Len(sq) + 1 - k]]

\* a faulty _GetAxisLabelsAndPositions: a horizontal bar chart has the labels
\* of every axis reversed
_GetAxisLabelsAndPositions_every_axis(self, name, c) ==
  IF self.class = "BarChartEncoder" /\ ~c.vertical
  THEN [labels |-> Reverse(c[name].labels), labels_true |-> TRUE,
        positions |-> Reverse(c[name].label_positions),
        positions_true |-> TRUE]
  ELSE [labels |-> c[name].labels, labels_true |-> c[name].labels # <<>>,
        positions |-> c[name].label_positions,
        positions_true |-> c[name].label_positions # <<>>]

\* _GetAxisLabelsAndPositions: the labels and positions and whether each
\* tests true; a reversed() iterator tests true even when it yields nothing
_GetAxisLabelsAndPositions(self, name, c) ==
  LET axis == c[name] IN
  IF self.class = "BarChartEncoder" /\ ~c.vertical /\ name = "left"
  THEN [labels |-> Reverse(axis.labels), labels_true |-> TRUE,
        positions |-> Reverse(axis.label_positions), positions_true |-> TRUE]
  ELSE [labels |-> axis.labels, labels_true |-> axis.labels # <<>>,
        positions |-> axis.label_positions,
        positions_true |-> axis.label_positions # <<>>]

\* the labelled axes, as (type code, name) pairs
LabelledAxes(c) == SelectSeq(_GetAxes, LAMBDA a : c[a[2]].labels # <<>>)

\* a faulty max: the first argument
PyMax_first(a, b) == a

\* max(a, b) of Python: the first of the largest
PyMax(a, b) == IF RLt(a, b) THEN b ELSE a

\* the loop of _GetAxisParams over the labelled axes from Python index i
RECURSIVE AxisLoop(_, _, _, _)
AxisLoop(self, c, i, acc) ==
  IF i >= Len(LabelledAxes(c)) THEN Return(acc)
  ELSE
    LET name == LabelledAxes(c)[i + 1][2]
        axis == c[name]
        mark_length == PyMax(self._width, self._height)
        lp == _GetAxisLabelsAndPositions(self, name, c)
    IN  IF (axis.min # None \/ axis.max # None)
             /\ (axis.min = None \/ axis.max = None)
        THEN Raise("AssertionError")
        ELSE AxisLoop(self, c, i + 1,
          [axis_type |-> Append(acc.axis_type, <<LabelledAxes(c)[i + 1][1]>>),
           axis_range |->
             IF axis.min # None
             THEN Append(acc.axis_range,
                         StrInt(i) \o <<",">> \o str(axis.min) \o <<",">>
                           \o str(axis.max))
             ELSE acc.axis_range,
           axis_label |->
             IF lp.labels_true
             THEN Append(acc.axis_label, StrInt(i) \o <<":">>) \o lp.labels
             ELSE acc.axis_label,
           axis_position |->
             IF lp.positions_true
             THEN Append(acc.axis_position,
                    StrJoinStrings(<<",">>,
                      <<StrInt(i)>> \o [k \in 1..Len(lp.positions) |->
                                          str(lp.positions[k])]))
             ELSE acc.axis_position,
           axis_tick_marks |->
             IF axis.label_gridlines
             THEN Append(acc.axis_tick_marks,
                    StrInt(i) \o <<",">> \o StrInt(int(RSub(Num(0), mark_length))))
             ELSE acc.axis_tick_marks])

\* a faulty _GetAxisParams: the label positions are left out
_GetAxisParams_without_positions(self, c) ==
  Bind(AxisLoop(self, c, 0,
         [axis_type |-> <<>>, axis_range |-> <<>>, axis_label |-> <<>>,
          axis_position |-> <<>>, axis_tick_marks |-> <<>>]),
       LAMBDA lists :
         Return(_JoinLists([lists EXCEPT !.axis_position = <<>>])))

_GetAxisParams(self, c) ==
  Bind(AxisLoop(self, c, 0,
         [axis_type |-> <<>>, axis_range |-> <<>>, axis_label |-> <<>>,
          axis_position |-> <<>>, axis_tick_marks |-> <<>>]),
       LAMBDA lists : Return(_JoinLists(lists)))

\* the grid step of one axis in percent: Return(number) or an exception
GridPercent(axis) ==
  IF axis.grid_spacing = None \/ axis.grid_spacing[1] = 0 THEN Return(Num(0))
  ELSE IF axis.min = None \/ axis.max = None THEN Raise("AssertionError")
  ELSE IF axis.max = axis.min THEN Raise("ZeroDivisionError")
  ELSE Return(RDiv(RMul(Num(100), axis.grid_spacing),
                   RSub(axis.max, axis.min)))

_GetGridParams(self, c) ==
  Bind(GridPercent(c.bottom), LAMBDA x :
    Bind(GridPercent(c.left), LAMBDA y :
      IF x[1] # 0 \/ y[1] # 0
      THEN Return([grid |-> FormatG(x, 3) \o <<",">> \o FormatG(y, 3)
                              \o <<",", "1", ",", "0">>])
      ELSE Return(EmptyDict)))

_GetType(self, c) ==
  CASE self.class = "LineChartEncoder" -> Return([chart_type |-> <<"l", "c">>])
    [] self.class = "SparklineEncoder" ->
         Return([chart_type |-> <<"l", "f", "i">>])
    [] self.class = "BarChartEncoder" ->
         Return([chart_type |->
                   <<"b", IF c.vertical THEN "v" ELSE "h",
                     IF c.stacked THEN "s" ELSE "g">>])
    [] self.class = "PieChartEncoder" ->
         Return([chart_type |-> IF self.is3d THEN <<"p", "3">> ELSE <<"p">>])

\* a faulty _ZeroPoint: a minimum of zero counts as negative
_ZeroPoint_nonpositive(self, c) ==
  LET min == c[GetDependentAxis(c)].min
      max == c[GetDependentAxis(c)].max
  IN  IF PyLt(min, Num(0)) \/ min = Num(0)
      THEN IF PyLt(max, Num(0)) \/ max = min THEN Return([chp |-> <<"1">>])
           ELSE Return([chp |-> str_float(RDiv(RSub(Num(0), min),
                                               RSub(max, min)))])
      ELSE Return(EmptyDict)

\* BarChartEncoder._ZeroPoint
_ZeroPoint(self, c) ==
  LET min == c[GetDependentAxis(c)].min
      max == c[GetDependentAxis(c)].max
  IN  IF PyLt(min, Num(0))
      THEN IF PyLt(max, Num(0)) THEN Return([chp |-> <<"1">>])
           ELSE Return([chp |-> str_float(RDiv(RSub(Num(0), min),
                                               RSub(max, min)))])
      ELSE Return(EmptyDict)

\* sum of the lengths of the series
RECURSIVE TotalBars(_)
TotalBars(series) ==
  IF series = <<>> THEN 0 ELSE Len(Head(series).data) + TotalBars(Tail(series))

\* a faulty division: the quotient is rounded up
FloorDiv_rounding_up(a, b) == Num(Ceil(RDiv(a, b)))

\* a // b of Python for numbers
FloorDiv(a, b) == Num(Floor(RDiv(a, b)))

\* BarChartEncoder._ApplyBarStyle
_ApplyBarStyle(self, c) ==
  IF self.style = None \/ c.data = <<>> THEN Return(EmptyDict)
  ELSE IF self.style[1] = None /\ self.style[2] = None /\ self.style[3] = None
  THEN Return(EmptyDict)
  ELSE
    LET bar_gap == IF self.style[2] = None /\ self.style[3] # None
                   THEN PyMax(Num(0), FloorDiv(self.style[3], Num(2)))
                   ELSE self.style[2]
        group_gap == IF self.style[3] = None /\ bar_gap # None
                     THEN Num(int(RMul(bar_gap, Num(2))))
                     ELSE self.style[3]
        space == IF c.vertical THEN self._width ELSE self._height
        num_groups == Len(c.data)
        num_bars == IF c.stacked THEN MaxBars(c.data) ELSE TotalBars(c.data)
        space_left ==
          IF c.stacked
          THEN RSub(space, RMul(bar_gap, Num(num_bars - 1)))
          ELSE RSub(RSub(space, RMul(bar_gap, Num(num_bars - num_groups))),
                    RMul(group_gap, Num(num_groups - 1)))
        bar_thickness ==
          IF self.style[1] # None THEN self.style[1]
          ELSE PyMax(Num(1), FloorDiv(space_left, Num(num_bars)))
        spec == <<str(bar_thickness)>>
                  \o (IF bar_gap # None
                      THEN <<str(bar_gap)>>
                             \o (IF group_gap # None /\ ~c.stacked
                                 THEN <<str(group_gap)>> ELSE <<>>)
                      ELSE <<>>)
    IN  IF self.style[1] = None /\ num_bars = 0
        THEN Raise("ZeroDivisionError")
        ELSE Return(_JoinLists([bar_height |-> spec]))

\* the largest of a non-empty sequence of numbers
RECURSIVE MaxOf(_)
MaxOf(points) ==
  IF Len(points) = 1 THEN points[1]
  ELSE PyMax(points[1], MaxOf(Tail(points)))

\* a faulty pie domain: the sizes are scaled from [0, sum of the sizes]
RECURSIVE PieDomainMax_sum(_)
PieDomainMax_sum(points) ==
  IF points = <<>> THEN Num(0)
  ELSE RAdd(points[1], PieDomainMax_sum(Tail(points)))

\* max_val of PieChartEncoder._GetDataSeriesParams
PieDomainMax(points) == IF points # <<>> THEN MaxOf(points) ELSE Num(1)

\* the colors of the segments that have one
PieColors(segments) ==
  LET colored == SelectSeq(segments, LAMBDA segment : segment.color # None)
  IN  [k \in 1..Len(colored) |-> colored[k].color]

\* PieChartEncoder._GetDataSeriesParams; every segment tests true
PieDataSeriesParams(self, c) ==
  Bind(_EncodeData(c, <<[k \in 1..Len(c.data) |-> c.data[k].data[1]]>>,
                   Num(0),
                   PieDomainMax([k \in 1..Len(c.data) |-> c.data[k].data[1]]),
                   _GetDataEncoder(self, c)),
       LAMBDA result :
         Return(Update(result,
                  _JoinLists([color |-> PieColors(c.data),
                              label |-> [k \in 1..Len(c.data) |->
                                           IF c.data[k].label = None
                                           THEN <<"_">>
                                           ELSE c.data[k].label]]))))

\* formatter(chart) for a parameter formatter given by its method name
CallParamFormatter(name, self, c) ==
  CASE name = "_GetLegendParams" -> _GetLegendParams(self, c)
    [] name = "_GetDataSeriesParams" ->
         IF self.class = "PieChartEncoder" THEN PieDataSeriesParams(self, c)
         ELSE _GetDataSeriesParams(self, c)
    [] name = "_GetAxisParams" -> _GetAxisParams(self, c)
    [] name = "_GetGridParams" -> _GetGridParams(self, c)
    [] name = "_GetType" -> _GetType(self, c)
    [] name = "_GetExtraParams" -> _GetExtraParams(self, c)
    [] name = "_GetSizeParams" -> _GetSizeParams(self, c)
    [] name = "_ZeroPoint" -> _ZeroPoint(self, c)
    [] name = "_ApplyBarStyle" -> _ApplyBarStyle(self, c)

\* Add(new_params) of _Params
Add(acc, new_params) ==
  Bind(_ShortenParameterNames(new_params, KeysInOrder(DOMAIN new_params)),
       LAMBDA short : Return(Update(acc, short)))

\* the loop of _Params over the formatters still to run
RECURSIVE ParamsLoop(_, _, _, _)
ParamsLoop(names, self, c, acc) ==
  IF names = <<>> THEN Return(acc)
  ELSE Bind(CallParamFormatter(Head(names), self, c), LAMBDA new_params :
         Bind(Add(acc, new_params), LAMBDA added :
           ParamsLoop(Tail(names), self, c, added)))

\* a faulty _Params: the chart's formatters run on the caller's chart
ParamsOfCallersChart(self, c, formatted) ==
  IF Raised(formatted) THEN <<c, formatted>>
  ELSE <<formatted.value,
         ParamsLoop(self.formatters, self, formatted.value, EmptyDict)>>

_Params_without_copy(self, c) ==
  ParamsOfCallersChart(self, c, RunChartFormatters(c.formatters, c))

\* self._Params(chart): <<the caller's chart after the call, the outcome>>
_Params(self, c) ==
  BindLast(GetFormattedChart(c), LAMBDA formatted :
    ParamsLoop(self.formatters, self, formatted, EmptyDict))

\* the escapes urllib.quote gives the characters that are not safe
QuoteTable ==
  (":" :> <<"%", "3", "A">>) @@ ("," :> <<"%", "2", "C">>)
    @@ ("|" :> <<"%", "7", "C">>)

\* urllib.quote(value)
quote(value) ==
  StrJoinStrings(<<>>, [k \in 1..Len(value) |->
                          Get(QuoteTable, value[k], <<value[k]>>)])

\* the loop of _EncodeUrl over the keys still to visit
RECURSIVE EncodeUrlLoop(_, _, _)
EncodeUrlLoop(p, keys, escape_url) ==
  IF keys = <<>> THEN <<>>
  ELSE LET value == IF escape_url THEN quote(p[Head(keys)]) ELSE p[Head(keys)]
           rest == EncodeUrlLoop(p, Tail(keys), escape_url)
       IN  IF value # <<>> THEN <<<<Head(keys), "=">> \o value>> \o rest
           ELSE rest

\* a faulty _EncodeUrl: the '?' is written also when no parameter is left
_EncodeUrl_always_query(base, p, escape_url) ==
  base \o <<"?">>
    \o StrJoinStrings(<<"&">>,
                      EncodeUrlLoop(p, KeysInOrder(DOMAIN p), escape_url))

_EncodeUrl(base, p, escape_url) ==
  LET real_params == EncodeUrlLoop(p, KeysInOrder(DOMAIN p), escape_url)
  IN  IF real_params # <<>>
      THEN base \o <<"?">> \o StrJoinStrings(<<"&">>, real_params)
      ELSE base

\* self.Url(width, height) on the chart self.chart: <<the encoder after the
\* call, the caller's chart after the call, the outcome>>
Url(self, c, width, height) ==
  <<[self EXCEPT !._width = width, !._height = height]>>
    \o BindLast(_Params([self EXCEPT !._width = width, !._height = height],
                        c),
                LAMBDA p : Return(_EncodeUrl(self.url_base, p,
                                             self.escape_url)))

\* self.Img(width, height)
Img(self, c, width, height) ==
  BindLast(Url(self, c, width, height), LAMBDA url :
    Return(<<"<img src='">> \o url \o <<"' width=">> \o str(width)
             \o <<" height=">> \o str(height) \o <<" alt='chart'/>">>))

-----------------------------------------------------------------------------
(* Inputs of the codec specification                                       *)

\* every multiple of 1/Den from lo to hi
Grid(lo, hi) == {Rat(k, Den) : k \in (lo * Den)..(hi * Den)}

\* single samples: the whole coarse range and its borders in steps of 1/Den,
\* every integer of the fine range, and the upper border of the fine range
SingleSamples ==
  Grid(-2, Len(SimpleCode) + 1)
    \cup {Num(i) : i \in 0..Len(EnhancedCode)}
    \cup Grid(Len(EnhancedCode) - 2, Len(EnhancedCode) + 1)
    \cup {None}

\* samples used in longer sequences
SeqSamples ==
  {None, Num(-1), Rat(-1, 2), Rat(-1, 4), Num(0), Rat(1, 2), Num(9), Num(61),
   Rat(245, 4), Rat(123, 2), Num(62), Num(4095), Num(4096)}

RECURSIVE SeqsUpTo(_, _)
SeqsUpTo(S, n) ==
  IF n = 0 THEN {<<>>}
  ELSE LET shorter == SeqsUpTo(S, n - 1)
       IN  shorter \cup {Append(s, x) : s \in {t \in shorter : Len(t) = n - 1},
                                        x \in S}

CodecInputs == {<<x>> : x \in SingleSamples} \cup SeqsUpTo(SeqSamples, MaxLen)

-----------------------------------------------------------------------------
(* Specification of the codecs: an encoder object is built, and Encode is  *)
(* called on it with some data.                                            *)

\* no encoder object has been built
CodecIdle ==
  /\ encoder = "_SimpleDataEncoder"
  /\ encoded = <<>>

\* _ScaleData is not under test
ScaleIdle ==
  /\ old_min = None
  /\ old_max = None
  /\ new_min = None
  /\ new_max = None
  /\ scaled = <<>>

\* _ShortenParameterNames is not under test
ShortenIdle ==
  /\ params = EmptyDict
  /\ order = <<>>
  /\ out = Return(EmptyDict)

\* no encode call has been made on the chart as it is now
NoResult == [call |-> "none", outcome |-> Return(<<>>)]

\* the chart is a fresh line chart
ChartIdle ==
  /\ chart = BaseChart("LineChart")
  /\ display = ChartEncoder("LineChartEncoder")
  /\ answer = NoResult
  /\ threads = <<>>

InitCodec ==
  /\ ScaleIdle
  /\ ShortenIdle
  /\ ChartIdle
  /\ encoder \in EncoderNames
  /\ data \in CodecInputs
  /\ encoded = <<>>
  /\ pc = "start"

\* encoded = encoder.Encode(data)
EncodeCall ==
  /\ pc = "start"
  /\ encoded' = Encode(encoder, data)
  /\ pc' = "done"
  /\ UNCHANGED <<encoder, data, scaleVars, shortenVars, chartVars>>

NextCodec == EncodeCall

SpecCodec == InitCodec /\ [][NextCodec]_vars

-----------------------------------------------------------------------------
(* Properties of the codecs                                                *)

\* number of characters of one encoded run
RunLength == IF encoder = "_SimpleDataEncoder" THEN 1 ELSE 2

\* the run of the i-th sample within the encoded string
Run(i) == SubSeq(encoded, (i - 1) * RunLength + 1, i * RunLength)

\* supported integer range of the codec under test
Lo == 0
Hi == IF encoder = "_SimpleDataEncoder" THEN 61 ELSE 4095

Placeholder == IF encoder = "_SimpleDataEncoder" THEN <<"_">> ELSE <<"_", "_">>

\* position (from 0) of character c in the string s
IndexOf(s, c) == CHOOSE i \in 0..(Len(s) - 1) : s[i + 1] = c

\* the k-th symbol (from 0) of A-Z, a-z, 0-9
CoarseSymbol(k) ==
  IF k < 26 THEN ascii_uppercase[k + 1]
  ELSE IF k < 52 THEN ascii_lowercase[k - 25]
  ELSE digits[k - 51]

\* the k-th character (from 0) of the 64-character base alphabet
BaseChar(k) == IF k < 62 THEN CoarseSymbol(k) ELSE IF k = 62 THEN "-" ELSE "."

BaseAlphabet == [k \in 1..64 |-> BaseChar(k - 1)]

\* the run expected for the integer k of the supported range
ExpectedRun(k) ==
  IF encoder = "_SimpleDataEncoder" THEN <<CoarseSymbol(k)>>
  ELSE <<BaseChar(k \div 64), BaseChar(k % 64)>>

\* the integer a run stands for
Decode(run) ==
  IF encoder = "_SimpleDataEncoder" THEN IndexOf(BaseAlphabet, run[1])
  ELSE 64 * IndexOf(BaseAlphabet, run[1]) + IndexOf(BaseAlphabet, run[2])

\* C3: the coarse codec maps 0..61, in order, to the distinct symbols A-Z,
\* a-z, 0-9 and the fine codec maps 0..4095, in order, to distinct
\* two-character codes over the 64-character base alphabet; Encode(data)
\* has one run per sample (length len(data), resp. 2*len(data)) and
\* Encode([]) is the empty string.
C3_AlphabetAndLength ==
  pc = "done" =>
    /\ Len(encoded) = RunLength * Len(data)
    /\ data = <<>> => encoded = <<>>
    /\ \A i \in 1..Len(data) :
         (IsInt(data[i]) /\ data[i][1] >= Lo /\ data[i][1] <= Hi) =>
           /\ Run(i) = ExpectedRun(data[i][1])
           /\ Decode(Run(i)) = data[i][1]

\* the last code of the fine codec has been produced next to an absent sample
C3_Witness ==
  /\ pc = "done"
  /\ encoder = "_EnhancedDataEncoder"
  /\ data = <<Num(4095), None>>
  /\ encoded = <<".", ".", "_", "_">>

\* the nearest integer to x, ties away from zero
Nearest(x) ==
  CHOOSE k \in (Floor(x) - 1)..(Floor(x) + 2) :
    LET twice == 2 * Abs(x[1] - k * x[2])  \* 2*|x - k| in units of 1/x[2]
    IN  \/ twice < x[2]
        \/ twice = x[2] /\ Abs(k) * x[2] > Abs(x[1])

\* C4 as stated: a sample encodes as the placeholder run if and only if it
\* is absent or its value lies outside [lo, hi].
C4_PlaceholderIffOutOfRange ==
  pc = "done" =>
    \A i \in 1..Len(data) :
      Run(i) = Placeholder <=>
        \/ data[i] = None
        \/ RLt(data[i], Num(Lo))
        \/ RLt(Num(Hi), data[i])

\* C4 amended: a sample encodes as the placeholder run if and only if it is
\* absent or lies at least one half outside [lo, hi] (x <= lo - 1/2 or
\* x >= hi + 1/2), that is, if its value rounded to the nearest integer is
\* outside the range.
C4_PlaceholderIffRoundedOutOfRange ==
  pc = "done" =>
    \A i \in 1..Len(data) :
      Run(i) = Placeholder <=>
        \/ data[i] = None
        \/ RLe(data[i], Rat(2 * Lo - 1, 2))
        \/ RLe(Rat(2 * Hi + 1, 2), data[i])

\* samples just outside the coarse range were encoded as its border symbols
C4_Witness ==
  /\ pc = "done"
  /\ encoder = "_SimpleDataEncoder"
  /\ data = <<Rat(-1, 4), Rat(245, 4)>>
  /\ encoded = <<"A", "9">>

\* C5: the coarse codec encodes a numeric sample x exactly as it encodes
\* the integer nearest to x, ties rounded away from zero.
C5_EncodesNearestInteger ==
  (pc = "done" /\ encoder = "_SimpleDataEncoder") =>
    \A i \in 1..Len(data) :
      data[i] # None =>
        LET k == Nearest(data[i])
        IN  /\ Run(i) = (IF k >= Lo /\ k <= Hi THEN <<CoarseSymbol(k)>>
                         ELSE <<"_">>)
            /\ Run(i) = Encode(encoder, <<Num(k)>>)

\* the ties -1/2 and 1/2 were encoded as -1 (placeholder) and as 1
C5_Witness ==
  /\ pc = "done"
  /\ encoder = "_SimpleDataEncoder"
  /\ data = <<Rat(-1, 2), Rat(1, 2)>>
  /\ encoded = <<"_", "B">>

-----------------------------------------------------------------------------
(* Specification of _ScaleData: the function is called once with some      *)
(* data and some pair of domains.                                          *)

\* bounds of the domains: halves and integers up to MaxDomain, and the two
\* codec ranges
DomainBounds ==
  {Rat(k, 2) : k \in (-2 * MaxDomain)..(2 * MaxDomain)}

CodecRanges ==
  {<<Num(_SimpleDataEncoder.min), Num(_SimpleDataEncoder.max)>>,
   <<Num(_EnhancedDataEncoder.min), Num(_EnhancedDataEncoder.max)>>,
   <<Num(1), Num(3)>>, <<Num(-6), Num(6)>>, <<Num(4), Num(4)>>}

ScaleSamples == {None, Num(-1), Num(0), Rat(1, 2), Num(1), Num(2), Num(3)}

InitScale ==
  /\ CodecIdle
  /\ ShortenIdle
  /\ ChartIdle
  /\ data \in SeqsUpTo(ScaleSamples, MaxLen)
  /\ old_min \in DomainBounds
  /\ old_max \in DomainBounds
  /\ \E r \in CodecRanges : new_min = r[1] /\ new_max = r[2]
  /\ scaled = <<>>
  /\ pc = "start"

\* scaled = _ScaleData(data, old_min, old_max, new_min, new_max)
ScaleCall ==
  /\ pc = "start"
  /\ scaled' = _ScaleData(data, old_min, old_max, new_min, new_max)
  /\ pc' = "done"
  /\ UNCHANGED <<data, old_min, old_max, new_min, new_max, codecVars,
                 shortenVars, chartVars>>

NextScale == ScaleCall

SpecScale == InitScale /\ [][NextScale]_vars

\* C6: _ScaleData returns a sequence of the same length and order, absent
\* samples stay absent, a numeric sample x becomes
\* new_min + (x - old_min)*(new_max - new_min)/(old_max - old_min) when
\* old_min # old_max (old_min maps to new_min, old_max to new_max) and
\* new_min + (x - old_min) when old_min = old_max.
C6_ScaleIsAffine ==
  pc = "done" =>
    /\ Len(scaled) = Len(data)
    /\ \A i \in 1..Len(data) :
         IF data[i] = None THEN scaled[i] = None
         ELSE IF old_min = old_max
              THEN scaled[i] = RAdd(new_min, RSub(data[i], old_min))
              ELSE /\ scaled[i] =
                        RAdd(new_min,
                             RDiv(RMul(RSub(data[i], old_min),
                                       RSub(new_max, new_min)),
                                  RSub(old_max, old_min)))
                   /\ data[i] = old_min => scaled[i] = new_min
                   /\ data[i] = old_max => scaled[i] = new_max

\* [None, 2] was scaled from the domain [1, 3] onto the coarse range
C6_Witness ==
  /\ pc = "done"
  /\ data = <<None, Num(2)>>
  /\ old_min = Num(1) /\ old_max = Num(3)
  /\ new_min = Num(0) /\ new_max = Num(61)
  /\ scaled = <<None, Rat(61, 2)>>

-----------------------------------------------------------------------------
(* Specification of _ShortenParameterNames: the function is called once    *)
(* with some dict, whose keys the loop visits in some order.               *)

ParamNames ==
  {"size", "chs", "data", "chd", "grid", "chg", "callback",
   "fancy_new_feature"}

ParamValues == {<<"S">>, <<"3", "2">>}

\* every dict with at most n of the keys K and values from V
DictsOver(K, V, n) ==
  UNION {[ks -> V] : ks \in {S \in SUBSET K : Cardinality(S) <= n}}

InitShorten ==
  /\ CodecIdle
  /\ ScaleIdle
  /\ ChartIdle
  /\ data = <<>>
  /\ params \in DictsOver(ParamNames, ParamValues, MaxKeys)
  /\ order \in Orders(DOMAIN params)
  /\ out = Return(EmptyDict)
  /\ pc = "start"

\* out = _ShortenParameterNames(params)
ShortenCall ==
  /\ pc = "start"
  /\ out' = _ShortenParameterNames(params, order)
  /\ pc' = "done"
  /\ UNCHANGED <<data, params, order, codecVars, scaleVars, chartVars>>

NextShorten == ShortenCall

SpecShorten == InitShorten /\ [][NextShorten]_vars

\* the short name of a key
ShortName(k) == IF k \in DOMAIN _LONG_NAMES THEN _LONG_NAMES[k] ELSE k

\* the dict holds both the long and the short form of some parameter
HasBothForms(p) ==
  \E k \in DOMAIN p : ShortName(k) # k /\ ShortName(k) \in DOMAIN p

\* C9: _ShortenParameterNames replaces every long name by its short name,
\* passes every other key through, keeps each value, and raises KeyError
\* without returning a mapping whenever the mapping holds both the long and
\* the short form of a parameter, whichever of the two is visited first.
C9_ShortenOrRaise ==
  pc = "done" =>
    IF HasBothForms(params) THEN out = Raise("KeyError")
    ELSE /\ ~Raised(out)
         /\ DOMAIN out.value = {ShortName(k) : k \in DOMAIN params}
         /\ \A k \in DOMAIN params : out.value[ShortName(k)] = params[k]

\* 'chs' was visited before 'size', next to an unknown key, and the call
\* raised
C9_Witness ==
  /\ pc = "done"
  /\ DOMAIN params = {"size", "chs", "fancy_new_feature"}
  /\ order = <<"fancy_new_feature", "chs", "size">>
  /\ Raised(out)

-----------------------------------------------------------------------------
(* Specification of a chart and its encoder: the caller builds a chart     *)
(* with one of the chart factories, changes it, and encodes it with Url,   *)
(* Img or _Params.                                                         *)

ChartKinds == {"LineChart", "Sparkline", "BarChart"}

\* Marker('x', '0000FF', 5)
MarkerX == <<<<"x">>, <<"0000FF">>, Num(5)>>

\* the series the caller adds: points, color, markers, label
SeriesInputs ==
  {<<<<>>, <<"eeeeee">>, <<>>, None>>,
   <<<<Num(1)>>, None, <<<<Num(0), MarkerX>>>>, None>>,
   <<<<Num(-1), None, Num(3)>>, <<"222222">>, <<>>, <<"L">>>>}

\* the values the caller gives an axis bound
MinInputs == {None, Num(0)}
MaxInputs == {None, Num(1)}

\* the dicts the caller makes extra_params
ExtraInputs ==
  {[chs |-> <<"X">>], [cht |-> <<"X">>], [size |-> <<"X">>, chs |-> <<"Y">>]}

\* the sizes the caller asks for
SizeInputs == {<<Rat(1001, 10), Rat(2002, 10)>>}

\* the chart formatters the caller removes
RemovableFormatters == {"MaliciousFormatter"}

InitChart ==
  /\ CodecIdle
  /\ ScaleIdle
  /\ ShortenIdle
  /\ data = <<>>
  /\ pc = "start"
  /\ \E kind \in ChartKinds :
       /\ chart = BaseChart(kind)
       /\ display = ChartEncoder(DisplayClass(kind))
  /\ answer = NoResult
  /\ threads = <<>>

\* what a change of the chart or of its encoder leaves alone
ChangeFrame ==
  /\ answer' = NoResult
  /\ UNCHANGED <<data, pc, codecVars, scaleVars, shortenVars, threads>>

\* chart.AddLine(points, ...) or chart.AddBars(points, ...)
AddData ==
  /\ Len(chart.data) < MaxSeries
  /\ \E s \in SeriesInputs :
       LET style == IF chart.kind = "BarChart" THEN None ELSE LineStyleSolid
       IN  chart' = [chart EXCEPT !.data =
                       Append(@, DataSeries(s[1], s[2], style, s[3], s[4]))]
  /\ UNCHANGED display
  /\ ChangeFrame

\* chart.left.min = v
SetAxisMin ==
  /\ \E v \in MinInputs : chart' = [chart EXCEPT !.left.min = v]
  /\ chart' # chart
  /\ UNCHANGED display
  /\ ChangeFrame

\* chart.left.max = v
SetAxisMax ==
  /\ \E v \in MaxInputs : chart' = [chart EXCEPT !.left.max = v]
  /\ chart' # chart
  /\ UNCHANGED display
  /\ ChangeFrame

\* chart.stacked = b on a bar chart
SetStacked ==
  /\ chart.kind = "BarChart"
  /\ chart' = [chart EXCEPT !.stacked = ~@]
  /\ UNCHANGED display
  /\ ChangeFrame

\* chart.AddFormatter(MaliciousFormatter)
AddFormatter ==
  /\ \A k \in 1..Len(chart.formatters) :
       chart.formatters[k] # "MaliciousFormatter"
  /\ chart' = [chart EXCEPT !.formatters = Append(@, "MaliciousFormatter")]
  /\ UNCHANGED display
  /\ ChangeFrame

\* chart.formatters.remove(f)
RemoveFormatter ==
  /\ \E f \in RemovableFormatters :
       /\ \E k \in 1..Len(chart.formatters) : chart.formatters[k] = f
       /\ chart' = [chart EXCEPT !.formatters = SelectSeq(@, LAMBDA g : g # f)]
  /\ UNCHANGED display
  /\ ChangeFrame

\* chart.display.extra_params.update(d)
SetExtraParams ==
  /\ display.extra_params = EmptyDict
  /\ \E d \in ExtraInputs :
       display' = [display EXCEPT !.extra_params = Update(@, d)]
  /\ UNCHANGED chart
  /\ ChangeFrame

\* chart.display.enhanced_encoding = True
SetEnhanced ==
  /\ ~display.enhanced_encoding
  /\ display' = [display EXCEPT !.enhanced_encoding = TRUE]
  /\ UNCHANGED chart
  /\ ChangeFrame

\* what an encode call leaves alone
EncodeFrame ==
  UNCHANGED <<data, pc, codecVars, scaleVars, shortenVars, threads>>

\* chart.display.Url(width, height)
UrlCall ==
  /\ \E size \in SizeInputs :
       \E r \in {Url(display, chart, size[1], size[2])} :
           /\ display' = r[1]
           /\ chart' = r[2]
           /\ answer' = [call |-> "Url", outcome |-> r[3]]
  /\ EncodeFrame

\* chart.display.Img(width, height)
ImgCall ==
  /\ \E size \in SizeInputs :
       \E r \in {Img(display, chart, size[1], size[2])} :
           /\ display' = r[1]
           /\ chart' = r[2]
           /\ answer' = [call |-> "Img", outcome |-> r[3]]
  /\ EncodeFrame

\* chart.display._Params(chart)
ParamsCall ==
  /\ \E r \in {_Params(display, chart)} :
         /\ chart' = r[1]
         /\ answer' = [call |-> "_Params", outcome |-> r[2]]
  /\ UNCHANGED display
  /\ EncodeFrame

NextChart ==
  \/ AddData \/ SetAxisMin \/ SetAxisMax \/ SetStacked
  \/ AddFormatter \/ RemoveFormatter \/ SetExtraParams \/ SetEnhanced
  \/ UrlCall \/ ImgCall \/ ParamsCall

SpecChart == InitChart /\ [][NextChart]_vars

-----------------------------------------------------------------------------
(* Properties of encoding a chart                                          *)

\* the parts of the string s between the occurrences of the delimiter d
RECURSIVE Split(_, _)
Split(s, d) ==
  IF \A k \in 1..Len(s) : s[k] # d THEN <<s>>
  ELSE LET k == CHOOSE k \in 1..Len(s) :
                  s[k] = d /\ \A j \in 1..(k - 1) : s[j] # d
       IN  <<SubSeq(s, 1, k - 1)>> \o Split(SubSeq(s, k + 1, Len(s)), d)

\* the entries of a list joined by d; the empty string is the empty list
Entries(s, d) == IF s = <<>> THEN <<>> ELSE Split(s, d)

\* the series that have data, in chart order
NonEmpty(series) == SelectSeq(series, LAMBDA sr : sr.data # <<>>)

\* the chart has the series-removing formatter registered
HasMalicious(c) ==
  \E k \in 1..Len(c.formatters) : c.formatters[k] = "MaliciousFormatter"

\* the last encode call was _Params and it returned a parameter mapping
ParamsReturned == answer.call = "_Params" /\ ~Raised(answer.outcome)

\* a parameter of the mapping the last _Params call returned
Param(name) == Get(answer.outcome.value, name, <<>>)

\* the codec prefix of the encoder
Prefix == IF display.enhanced_encoding THEN <<"e", ":">> ELSE <<"s", ":">>

\* the encoded runs of the data payload
PayloadRuns == Entries(SubSeq(Param("chd"), 3, Len(Param("chd"))), ",")

\* the series a registered series-removing formatter leaves to the encoder
SeriesLeft(c) ==
  IF HasMalicious(c) THEN SubSeq(c.data, 1, Len(c.data) - 1) ELSE c.data

\* C1: an encode call (Url, Img, _Params), returning or raising, leaves the
\* caller's chart (series, axis bounds, formatter list) as it was, whatever
\* formatters are registered; a registered series-removing formatter shows in
\* the result (one run fewer), and with the formatter removed again the
\* result has one run per non-empty series of the chart, as before.
C1_EncodeWorksOnCopy ==
  /\ [][answer'.call # "none" => chart' = chart]_vars
  /\ [](ParamsReturned =>
          Len(PayloadRuns) = Len(NonEmpty(SeriesLeft(chart))))

C1_Witness ==
  /\ ParamsReturned
  /\ HasMalicious(chart)
  /\ Len(NonEmpty(chart.data)) = 2
  /\ Len(PayloadRuns) = 1

\* the dependent axis of the caller's chart has both bounds set or both unset
BoundsPaired(c) ==
  (c[GetDependentAxis(c)].min = None) = (c[GetDependentAxis(c)].max = None)

\* the caller's chart and encoder are such that no step of the encode is
\* specified to fail: no series-removing formatter, paired axis bounds, no
\* parameter given twice in extra_params
PlainChart ==
  /\ ~HasMalicious(chart)
  /\ BoundsPaired(chart)
  /\ ~HasBothForms(display.extra_params)

\* number of characters of one encoded sample
SampleLength == IF display.enhanced_encoding THEN 2 ELSE 1

\* C7: _Params of a line, sparkline or bar chart returns a payload that is
\* the codec prefix followed by one run per non-empty series, in chart order
\* (the k-th run has one encoded sample per point of the k-th non-empty
\* series), and a color list with one entry per non-empty series in the same
\* order; with no series or only empty series the payload is the prefix alone.
C7_PayloadPerNonEmptySeries ==
  (answer.call = "_Params" /\ PlainChart) =>
    /\ ~Raised(answer.outcome)
    /\ LET kept == NonEmpty(chart.data)
           colors == Entries(Param("chco"), ",")
       IN  /\ SubSeq(Param("chd"), 1, 2) = Prefix
           /\ Len(PayloadRuns) = Len(kept)
           /\ \A k \in 1..Len(kept) :
                Len(PayloadRuns[k]) = SampleLength * Len(kept[k].data)
           /\ Len(colors) = Len(kept)
           /\ \A k \in 1..Len(kept) :
                kept[k].color # None => colors[k] = kept[k].color
           /\ kept = <<>> => Param("chd") = Prefix

\* the position in the payload (from 0) of the series of each marker, in
\* the order of the markers
RECURSIVE MarkerPositions(_, _)
MarkerPositions(kept, k) ==
  IF k > Len(kept) THEN <<>>
  ELSE [m \in 1..Len(kept[k].markers) |-> k - 1]
         \o MarkerPositions(kept, k + 1)

\* C8: in the marker parameter _Params returns, the series index of each
\* marker entry (its third field) is the position of the marker's series in
\* the data payload, counting only the non-empty series.
C8_MarkerIndexIsPayloadPosition ==
  (ParamsReturned /\ ~HasMalicious(chart)) =>
    LET entries == Entries(Param("chm"), "|")
        positions == MarkerPositions(NonEmpty(chart.data), 1)
    IN  /\ Len(entries) = Len(positions)
        /\ \A k \in 1..Len(entries) :
             Split(entries[k], ",")[3] = StrInt(positions[k])

\* the parameters every encode gets from a built-in parameter formatter
\* under their long names
BuiltInLongNames == {"size", "chart_type"}

\* extra_params names, by its short name, a parameter that a built-in
\* parameter formatter names by its long name
HasShortFormOfBuiltIn(p) ==
  \E k \in BuiltInLongNames : _LONG_NAMES[k] \in DOMAIN p

-----------------------------------------------------------------------------
(* Specification of two threads that call Url on the encoder of one chart. *)
(* A thread switch can come between any two bytecodes, so each write and   *)
(* each read of self._width and self._height is a step of its own.         *)

Threads == {1, 2}

\* the (width, height) a thread asks for
ThreadSizes == {<<Num(100), Num(50)>>, <<Num(30), Num(200)>>}

\* the chart the threads encode: a line with a labelled left axis whose
\* labels have gridlines
ThreadChart ==
  [BaseChart("LineChart") EXCEPT
     !.data = <<DataSeries(<<Num(1)>>, None, LineStyleSolid, <<>>, None)>>,
     !.left.labels = <<<<"a">>>>,
     !.left.label_gridlines = TRUE]

InitThreads ==
  /\ CodecIdle
  /\ ScaleIdle
  /\ ShortenIdle
  /\ data = <<>>
  /\ pc = "start"
  /\ chart = ThreadChart
  /\ display = ChartEncoder("LineChartEncoder")
  /\ answer = NoResult
  /\ \E sizes \in [Threads -> ThreadSizes] :
       threads = [t \in Threads |->
                    [pc |-> "Url", width |-> sizes[t][1],
                     height |-> sizes[t][2], mark_width |-> None,
                     size_width |-> None, params |-> Return(EmptyDict),
                     result |-> Return(<<>>)]]

\* what a step of a thread leaves alone
ThreadFrame ==
  UNCHANGED <<data, pc, codecVars, scaleVars, shortenVars, chart, answer>>

\* the parameter formatters of the names run by thread t with the encoder
\* as the thread reads it, continuing from the parameters it has so far
RunParamFormatters(t, names, self) ==
  Bind(threads[t].params, LAMBDA acc :
    Bind(GetFormattedChart(chart)[2], LAMBDA formatted :
      ParamsLoop(names, self, formatted, acc)))

\* Url: self._width = width
UrlSetWidth(t) ==
  /\ threads[t].pc = "Url"
  /\ display' = [display EXCEPT !._width = threads[t].width]
  /\ threads' = [threads EXCEPT ![t].pc = "set_height"]
  /\ ThreadFrame

\* Url: self._height = height
UrlSetHeight(t) ==
  /\ threads[t].pc = "set_height"
  /\ display' = [display EXCEPT !._height = threads[t].height]
  /\ threads' = [threads EXCEPT ![t].pc = "_Params"]
  /\ ThreadFrame

\* _Params: the chart is formatted and the parameter formatters before
\* _GetAxisParams run
ParamsBegin(t) ==
  /\ threads[t].pc = "_Params"
  /\ \E p \in {RunParamFormatters(t, SubSeq(display.formatters, 1, 2),
                                  display)} :
       threads' = [threads EXCEPT ![t].pc = "_GetAxisParams",
                                  ![t].params = p]
  /\ UNCHANGED display
  /\ ThreadFrame

\* _GetAxisParams: max(self._width, ...) loads self._width
AxisReadWidth(t) ==
  /\ threads[t].pc = "_GetAxisParams"
  /\ threads' = [threads EXCEPT ![t].pc = "axis_height",
                                ![t].mark_width = display._width]
  /\ UNCHANGED display
  /\ ThreadFrame

\* _GetAxisParams: max(..., self._height) loads self._height; the rest of
\* _GetAxisParams and the parameter formatters before _GetSizeParams run
AxisReadHeight(t) ==
  /\ threads[t].pc = "axis_height"
  /\ \E p \in {RunParamFormatters(t, SubSeq(display.formatters, 3, 6),
                 [display EXCEPT !._width = threads[t].mark_width])} :
       threads' = [threads EXCEPT ![t].pc = "_GetSizeParams",
                                  ![t].params = p]
  /\ UNCHANGED display
  /\ ThreadFrame

\* _GetSizeParams: int(self._width) loads self._width
SizeReadWidth(t) ==
  /\ threads[t].pc = "_GetSizeParams"
  /\ threads' = [threads EXCEPT ![t].pc = "size_height",
                                ![t].size_width = display._width]
  /\ UNCHANGED display
  /\ ThreadFrame

\* _GetSizeParams: int(self._height) loads self._height; _Params returns
\* and Url returns the URL of the parameters
SizeReadHeight(t) ==
  /\ threads[t].pc = "size_height"
  /\ \E p \in {RunParamFormatters(t, SubSeq(display.formatters, 7, 7),
                 [display EXCEPT !._width = threads[t].size_width])} :
       threads' = [threads EXCEPT
                     ![t].pc = "done",
                     ![t].params = p,
                     ![t].result =
                       IF Raised(p) THEN p
                       ELSE Return(_EncodeUrl(display.url_base, p.value,
                                              display.escape_url))]
  /\ UNCHANGED display
  /\ ThreadFrame

NextThreads ==
  \E t \in Threads :
    \/ UrlSetWidth(t) \/ UrlSetHeight(t) \/ ParamsBegin(t)
    \/ AxisReadWidth(t) \/ AxisReadHeight(t)
    \/ SizeReadWidth(t) \/ SizeReadHeight(t)

SpecThreads == InitThreads /\ [][NextThreads]_vars

\* the URL the call of thread t returns when no other thread runs
UrlAlone(t) ==
  Url(ChartEncoder("LineChartEncoder"), chart, threads[t].width,
      threads[t].height)[3]

\* C2: when two threads call Url on the same chart concurrently, each call
\* returns the URL it returns when run alone, in every interleaving.
C2_EachCallReturnsItsOwnUrl ==
  \A t \in Threads : threads[t].pc = "done" => threads[t].result = UrlAlone(t)

-----------------------------------------------------------------------------
(* Properties of extra_params                                              *)

\* C11: a value the caller puts in extra_params for a parameter, under its
\* long or its short name, is the value of that parameter in the mapping
\* _Params returns, whatever built-in parameter formatter produces the same
\* parameter (chart type, data, color, axis, grid, size, zero point, bar
\* geometry).
C11_ExtraParamsOverrideBuiltIns ==
  ParamsReturned =>
    \A k \in DOMAIN display.extra_params :
      Param(ShortName(k)) = display.extra_params[k]

-----------------------------------------------------------------------------
(* Specification of _EncodeUrl: the function is called once with the       *)
(* encoder's url_base and escape_url and some parameter mapping, among     *)
(* them the mappings _Params returns for a fresh chart of each kind.       *)

UrlParamNames == {"chs", "chd", "chxt", "cht"}

UrlParamValues == {<<>>, <<"a">>, <<"a", "|", "b">>}

\* the mapping _Params returns for a chart as the factory makes it
ParamsOfFreshChart(kind) ==
  _Params(ChartEncoder(DisplayClass(kind)), BaseChart(kind))[2].value

InitUrl ==
  /\ CodecIdle
  /\ ScaleIdle
  /\ data = <<>>
  /\ order = <<>>
  /\ chart = BaseChart("LineChart")
  /\ answer = NoResult
  /\ threads = <<>>
  /\ \E e \in BOOLEAN :
       display = [ChartEncoder("LineChartEncoder") EXCEPT !.escape_url = e]
  /\ params \in DictsOver(UrlParamNames, UrlParamValues, MaxKeys)
                  \cup {ParamsOfFreshChart(kind) : kind \in ChartKinds}
  /\ out = Return(EmptyDict)
  /\ pc = "start"

\* out = _EncodeUrl(self.url_base, params, self.escape_url)
EncodeUrlCall ==
  /\ pc = "start"
  /\ out' = Return(_EncodeUrl(display.url_base, params, display.escape_url))
  /\ pc' = "done"
  /\ UNCHANGED <<data, params, order, codecVars, scaleVars, chartVars>>

NextUrl == EncodeUrlCall

SpecUrl == InitUrl /\ [][NextUrl]_vars

\* the parameters of the mapping whose value is not the empty string
NonEmptyParams == {k \in DOMAIN params : params[k] # <<>>}

\* the value of a parameter as the URL holds it
UrlValue(k) == IF display.escape_url THEN quote(params[k]) ELSE params[k]

\* the 'key=value' pairs of the URL returned, the text after the '?'
UrlPairs == Split(SubSeq(out.value, 3, Len(out.value)), "&")

\* C12: _EncodeUrl emits a 'key=value' pair for exactly the parameters whose
\* value is non-empty and returns the base, a '?' and the pairs joined by
\* '&', or the bare base when no parameter has a non-empty value; a parameter
\* whose value is the empty string stays in the mapping (as in the mapping
\* _Params returns for a fresh chart) and does not occur in the URL.
C12_UrlHoldsNonEmptyParams ==
  pc = "done" =>
    IF NonEmptyParams = {} THEN out.value = display.url_base
    ELSE /\ SubSeq(out.value, 1, 2) = display.url_base \o <<"?">>
         /\ Len(UrlPairs) = Cardinality(NonEmptyParams)
         /\ {UrlPairs[i] : i \in 1..Len(UrlPairs)}
              = {<<k, "=">> \o UrlValue(k) : k \in NonEmptyParams}
         /\ \A k \in DOMAIN params \ NonEmptyParams :
              \A i \in 1..Len(out.value) : out.value[i] # k

\* the mapping is one _Params returned, it holds a parameter with an empty
\* value next to others, and the URL has been made
C12_Witness ==
  /\ pc = "done"
  /\ params = ParamsOfFreshChart("LineChart")
  /\ params["chxt"] = <<>>
  /\ NonEmptyParams # {}
  /\ Len(out.value) > 2

-----------------------------------------------------------------------------
(* Specification of the axes of a chart: the caller builds a line or a bar *)
(* chart, adds series, sets bounds, labels, label positions and grid       *)
(* spacing of the left and the bottom axis, turns a bar chart horizontal   *)
(* or vertical, and encodes it with _Params.                               *)

AxesKinds == {"LineChart", "BarChart"}

\* the points of the series the caller adds
AxesSeriesInputs == {<<Num(0), Num(20)>>}

\* the axes the caller changes
AxesNames == {"left", "bottom"}

\* the values the caller gives an axis bound
AxesMinInputs == {None, Num(0)}
AxesMaxInputs == {None, Num(0), Num(20)}

\* the labels and label positions the caller gives an axis
AxesLabelInputs ==
  {<<<<>>, <<>>>>,
   <<<<<<"a">>, <<"b">>>>, <<>>>>,
   <<<<<<"a">>, <<"b">>>>, <<Num(1), Num(2)>>>>}

\* the grid spacings the caller gives an axis
AxesGridInputs == {None, Num(10)}

InitAxes ==
  /\ CodecIdle
  /\ ScaleIdle
  /\ ShortenIdle
  /\ data = <<>>
  /\ pc = "start"
  /\ \E kind \in AxesKinds :
       /\ chart = BaseChart(kind)
       /\ display = ChartEncoder(DisplayClass(kind))
  /\ answer = NoResult
  /\ threads = <<>>

\* chart.AddLine(points) or chart.AddBars(points)
AxesAddData ==
  /\ Len(chart.data) < MaxSeries
  /\ \E points \in AxesSeriesInputs :
       LET style == IF chart.kind = "BarChart" THEN None ELSE LineStyleSolid
       IN  chart' = [chart EXCEPT !.data =
                       Append(@, DataSeries(points, None, style, <<>>, None))]
  /\ UNCHANGED display
  /\ ChangeFrame

\* axis.min = v
AxesSetMin ==
  /\ \E name \in AxesNames, v \in AxesMinInputs :
       chart' = [chart EXCEPT ![name].min = v]
  /\ chart' # chart
  /\ UNCHANGED display
  /\ ChangeFrame

\* axis.max = v
AxesSetMax ==
  /\ \E name \in AxesNames, v \in AxesMaxInputs :
       chart' = [chart EXCEPT ![name].max = v]
  /\ chart' # chart
  /\ UNCHANGED display
  /\ ChangeFrame

\* axis.labels = labels; axis.label_positions = positions
AxesSetLabels ==
  /\ \E name \in AxesNames, lp \in AxesLabelInputs :
       chart' = [chart EXCEPT ![name].labels = lp[1],
                              ![name].label_positions = lp[2]]
  /\ chart' # chart
  /\ UNCHANGED display
  /\ ChangeFrame

\* axis.grid_spacing = v
AxesSetGrid ==
  /\ \E name \in AxesNames, v \in AxesGridInputs :
       chart' = [chart EXCEPT ![name].grid_spacing = v]
  /\ chart' # chart
  /\ UNCHANGED display
  /\ ChangeFrame

\* chart.vertical = b on a bar chart
AxesSetVertical ==
  /\ chart.kind = "BarChart"
  /\ chart' = [chart EXCEPT !.vertical = ~@]
  /\ UNCHANGED display
  /\ ChangeFrame

NextAxes ==
  \/ AxesAddData \/ AxesSetMin \/ AxesSetMax \/ AxesSetLabels
  \/ AxesSetGrid \/ AxesSetVertical \/ ParamsCall

SpecAxes == InitAxes /\ [][NextAxes]_vars

-----------------------------------------------------------------------------
(* Properties of the axes                                                  *)

AllAxes == {"left", "right", "bottom", "top"}

\* exactly one of min and max of the axis is set
OneSided(axis) == (axis.min = None) # (axis.max = None)

\* the axis is one whose unset bounds auto_scale fills from the data
FilledByAutoScale(c, name) ==
  /\ AllPoints(c) # {}
  /\ \E k \in 1..Len(GetDependentAxes(c)) : GetDependentAxes(c)[k] = name

\* the axes whose bounds an encode reads: the dependent axis (for the data)
\* and every axis with labels (for the axis ranges)
BoundedAxes(c) ==
  {GetDependentAxis(c)} \cup {name \in AllAxes : c[name].labels # <<>>}

\* an axis whose bounds the encode reads has exactly one bound set, and
\* auto_scale does not fill the other
OneSidedAtEncoding(c) ==
  \E name \in BoundedAxes(c) :
    OneSided(c[name]) /\ ~FilledByAutoScale(c, name)

\* the chart has no grid spacing
NoGrid(c) == c.left.grid_spacing = None /\ c.bottom.grid_spacing = None

\* C13 as stated: an encode of a chart in which any axis has exactly one of
\* min and max set fails and returns no mapping; it succeeds only when every
\* axis has both bounds set or both unset.
C13_FailsOnAnyOneSidedAxis ==
  (answer.call # "none" /\ \E name \in AllAxes : OneSided(chart[name]))
    => Raised(answer.outcome)

\* C13 amended: an encode fails with AssertionError and returns no mapping
\* when, at encoding time, the dependent axis or an axis with labels has
\* exactly one of min and max set; the unset bound of a dependent axis of a
\* chart with data is filled by auto_scale before, so that encode does not
\* fail, and a one-sided axis that is neither dependent nor labelled (and has
\* no grid spacing) does not make the encode fail either.
C13_FailsOnOneSidedAxisInUse ==
  answer.call # "none" =>
    /\ OneSidedAtEncoding(chart) => answer.outcome = Raise("AssertionError")
    /\ (~OneSidedAtEncoding(chart) /\ NoGrid(chart))
         => ~Raised(answer.outcome)

\* an encode of a chart without data whose left axis has only min set
C13_Witness ==
  /\ answer.call = "_Params"
  /\ chart.data = <<>>
  /\ chart.left.min # None /\ chart.left.max = None
  /\ chart.left.labels = <<>>
  /\ answer.outcome = Raise("AssertionError")

\* the chart as the parameter formatters see it
AtEncoding(c) == GetFormattedChart(c)[2].value

\* the axes among bottom and left that have a non-zero grid spacing
GridAxes(c) ==
  {name \in {"bottom", "left"} :
     c[name].grid_spacing # None /\ c[name].grid_spacing # Num(0)}

\* an axis with a grid spacing lacks min or max
GridLacksBound(c) ==
  \E name \in GridAxes(c) : c[name].min = None \/ c[name].max = None

\* 100 * spacing / (max - min) of an axis with a grid spacing, and 0 of an
\* axis without, as '%.3g' writes it
GridStep(c, name) ==
  IF name \notin GridAxes(c) THEN <<"0">>
  ELSE FormatG(RDiv(RMul(Num(100), c[name].grid_spacing),
                    RSub(c[name].max, c[name].min)), 3)

\* C14: the grid parameter is emitted if and only if the bottom or the left
\* axis has a non-zero grid spacing, with the value 'x,y,1,0' where x is
\* 100 * spacing / (max - min) of the bottom axis and y that of the left
\* axis, 0 for an axis without spacing; an encode in which an axis has a grid
\* spacing but lacks min or max at encoding time fails and returns no mapping.
C14_GridParamIffSpacing ==
  answer.call # "none" =>
    /\ GridLacksBound(AtEncoding(chart)) => Raised(answer.outcome)
    /\ (~GridLacksBound(AtEncoding(chart)) /\ ~OneSidedAtEncoding(chart)) =>
         /\ ~Raised(answer.outcome)
         /\ ("chg" \in DOMAIN answer.outcome.value)
              = (GridAxes(chart) # {})
         /\ GridAxes(chart) # {} =>
              Param("chg") = GridStep(AtEncoding(chart), "bottom") \o <<",">>
                               \o GridStep(AtEncoding(chart), "left")
                               \o <<",", "1", ",", "0">>

-----------------------------------------------------------------------------
(* Specification of the zero point of a bar chart: the caller builds a bar *)
(* chart, adds series, sets the bounds of its dependent axis, makes it     *)
(* horizontal or vertical, stacked or grouped, and encodes it with         *)
(* _Params.                                                                *)

\* the points of the series the caller adds
BarSeriesInputs == {<<Num(1)>>, <<Num(-5), Num(0), Num(5)>>}

\* the values the caller gives the bounds of the dependent axis
BarMinInputs == {None, Num(-5), Num(0)}
BarMaxInputs == {None, Num(-1), Num(5), Num(15)}

InitBars ==
  /\ CodecIdle
  /\ ScaleIdle
  /\ ShortenIdle
  /\ data = <<>>
  /\ pc = "start"
  /\ chart = BaseChart("BarChart")
  /\ display = ChartEncoder("BarChartEncoder")
  /\ answer = NoResult
  /\ threads = <<>>

\* chart.AddBars(points)
BarsAddBars ==
  /\ Len(chart.data) < MaxSeries
  /\ \E points \in BarSeriesInputs :
       chart' = [chart EXCEPT !.data =
                   Append(@, DataSeries(points, None, None, <<>>, None))]
  /\ UNCHANGED display
  /\ ChangeFrame

\* chart.GetDependentAxis().min = v
BarsSetMin ==
  /\ \E v \in BarMinInputs :
       chart' = [chart EXCEPT ![GetDependentAxis(chart)].min = v]
  /\ chart' # chart
  /\ UNCHANGED display
  /\ ChangeFrame

\* chart.GetDependentAxis().max = v
BarsSetMax ==
  /\ \E v \in BarMaxInputs :
       chart' = [chart EXCEPT ![GetDependentAxis(chart)].max = v]
  /\ chart' # chart
  /\ UNCHANGED display
  /\ ChangeFrame

NextBars ==
  \/ BarsAddBars \/ BarsSetMin \/ BarsSetMax \/ AxesSetVertical \/ SetStacked
  \/ ParamsCall

SpecBars == InitBars /\ [][NextBars]_vars

\* the dependent axis as the parameter formatters see it
DependentAtEncoding == AtEncoding(chart)[GetDependentAxis(chart)]

\* -min / (max - min)
ZeroPointValue(axis) == RDiv(RSub(Num(0), axis.min), RSub(axis.max, axis.min))

\* C15: for a bar chart whose dependent axis (left if vertical, bottom if
\* horizontal) has numeric bounds at encoding time, the zero point is emitted
\* if and only if min < 0; it is 1 when max < 0 too and -min / (max - min)
\* otherwise, which lies in (0, 1] and divides by a non-zero range; the
\* encode does not fail.
C15_ZeroPointIffNegativeMin ==
  (answer.call # "none" /\ DependentAtEncoding.min # None
     /\ DependentAtEncoding.max # None) =>
    /\ ~Raised(answer.outcome)
    /\ ("chp" \in DOMAIN answer.outcome.value)
         = RLt(DependentAtEncoding.min, Num(0))
    /\ (RLt(DependentAtEncoding.min, Num(0))
          /\ RLt(DependentAtEncoding.max, Num(0))) => Param("chp") = <<"1">>
    /\ (RLt(DependentAtEncoding.min, Num(0))
          /\ ~RLt(DependentAtEncoding.max, Num(0))) =>
         /\ DependentAtEncoding.max # DependentAtEncoding.min
         /\ RLt(Num(0), ZeroPointValue(DependentAtEncoding))
         /\ RLe(ZeroPointValue(DependentAtEncoding), Num(1))
         /\ Param("chp") = str_float(ZeroPointValue(DependentAtEncoding))

\* the bar series [-5, 0, 5] with default scaling on a horizontal chart:
\* the zero point is 0.5
C15_Witness ==
  /\ ParamsReturned
  /\ ~chart.vertical
  /\ chart.bottom.min = None /\ chart.bottom.max = None
  /\ Len(chart.data) = 1
  /\ Param("chp") = <<"0", ".", "5">>

-----------------------------------------------------------------------------
(* Specification of the bar geometry: the caller builds a bar chart, adds  *)
(* series, gives the encoder a BarStyle and a size, makes the chart        *)
(* horizontal or vertical, stacked or grouped, and encodes it with         *)
(* _Params.                                                                *)

\* the points of the series the caller adds
StyleSeriesInputs == {<<>>, <<Num(1), Num(2), Num(3)>>}

\* the values of display.style: None or BarStyle(thickness, bar_gap,
\* group_gap) with pixel counts or None
BarStyleInputs ==
  {None} \cup ({None, Num(10)} \X {None, Num(1), Num(3)}
                 \X {None, Num(-3), Num(1), Num(6)})

\* the values of display._width and display._height
StyleSizeInputs == {<<Num(100), Num(1000)>>, <<Num(7), Num(1)>>}

InitBarStyle ==
  /\ CodecIdle
  /\ ScaleIdle
  /\ ShortenIdle
  /\ data = <<>>
  /\ pc = "start"
  /\ chart = BaseChart("BarChart")
  /\ display = ChartEncoder("BarChartEncoder")
  /\ answer = NoResult
  /\ threads = <<>>

\* chart.AddBars(points)
StyleAddBars ==
  /\ Len(chart.data) < MaxSeries
  /\ \E points \in StyleSeriesInputs :
       chart' = [chart EXCEPT !.data =
                   Append(@, DataSeries(points, None, None, <<>>, None))]
  /\ UNCHANGED display
  /\ ChangeFrame

\* chart.display.style = style
SetBarStyle ==
  /\ \E style \in BarStyleInputs : display' = [display EXCEPT !.style = style]
  /\ display' # display
  /\ UNCHANGED chart
  /\ ChangeFrame

\* chart.display._width = width; chart.display._height = height
SetSize ==
  /\ \E size \in StyleSizeInputs :
       display' = [display EXCEPT !._width = size[1], !._height = size[2]]
  /\ display' # display
  /\ UNCHANGED chart
  /\ ChangeFrame

NextBarStyle ==
  \/ StyleAddBars \/ SetBarStyle \/ SetSize \/ AxesSetVertical \/ SetStacked
  \/ ParamsCall

SpecBarStyle == InitBarStyle /\ [][NextBarStyle]_vars

\* the mapping returned has the bar-geometry parameter
GeometryEmitted == ParamsReturned /\ "chbh" \in DOMAIN answer.outcome.value

\* the fields of the bar-geometry parameter
Geometry == Split(Param("chbh"), ",")

\* the bar gap in use: the one set, else the one made of the group gap
KnownBarGap ==
  IF display.style[2] # None THEN display.style[2]
  ELSE IF display.style[3] = None THEN None
  ELSE IF display.style[3][1] < 0 THEN Num(0)
  ELSE Num(display.style[3][1] \div (2 * display.style[3][2]))

\* the group gap in use: the one set, else twice the bar gap
KnownGroupGap ==
  IF display.style[3] # None THEN display.style[3]
  ELSE IF display.style[2] = None THEN None
  ELSE RMul(Num(2), display.style[2])

\* C16: the bar-geometry parameter is emitted only when the encoder has a
\* BarStyle, the chart has a series and one of thickness, bar gap and group
\* gap is set; an unset bar gap with a set group gap becomes
\* max(0, group_gap / 2) rounded down, an unset group gap with a set bar gap
\* becomes 2 * bar_gap; the value is the thickness, then the bar gap if one is
\* known, then the group gap for unstacked charts only.
C16_BarGeometryValue ==
  GeometryEmitted =>
    /\ display.style # None
    /\ chart.data # <<>>
    /\ \E k \in 1..3 : display.style[k] # None
    /\ Len(Geometry) = IF KnownBarGap = None THEN 1
                       ELSE IF chart.stacked THEN 2 ELSE 3
    /\ display.style[1] # None => Geometry[1] = str(display.style[1])
    /\ KnownBarGap # None => Geometry[2] = str(KnownBarGap)
    /\ (KnownBarGap # None /\ ~chart.stacked)
         => Geometry[3] = str(KnownGroupGap)

\* BarStyle(10, None, 1) on a grouped chart: the bar gap becomes 0
C16_Witness ==
  /\ GeometryEmitted
  /\ display.style = <<Num(10), None, Num(1)>>
  /\ ~chart.stacked
  /\ Param("chbh") = <<"1", "0", ",", "0", ",", "1">>

\* the number a string of decimal digits stands for
RECURSIVE ParseNat(_)
ParseNat(s) ==
  IF s = <<>> THEN 0
  ELSE 10 * ParseNat(SubSeq(s, 1, Len(s) - 1))
         + (CHOOSE d \in 0..9 : StrNat(d) = <<s[Len(s)]>>)

\* the thickness was not set and the geometry emitted holds a computed one
AutoThickness == GeometryEmitted /\ display.style[1] = None

\* the span the bars share: the width of a vertical chart, the height of a
\* horizontal one
Span == IF chart.vertical THEN display._width ELSE display._height

\* the number of bars side by side: the longest series of a stacked chart,
\* all bars of a grouped one
NumBars == IF chart.stacked THEN MaxBars(chart.data) ELSE TotalBars(chart.data)

\* the space that bars of thickness t and the gaps between them take
SpaceTaken(t) ==
  IF chart.stacked
  THEN RAdd(Num(t * NumBars), RMul(KnownBarGap, Num(NumBars - 1)))
  ELSE RAdd(RAdd(Num(t * NumBars),
                 RMul(KnownBarGap, Num(NumBars - Len(chart.data)))),
            RMul(KnownGroupGap, Num(Len(chart.data) - 1)))

\* C17 as stated: whenever the bar thickness is auto-computed the emitted
\* geometry fits the span (bars and gaps together take no more than the
\* width of a vertical chart, the height of a horizontal one), and the
\* emitted thickness is at least 1 pixel.
C17_AutoThicknessFitsSpan ==
  AutoThickness =>
    /\ ParseNat(Geometry[1]) >= 1
    /\ RLe(SpaceTaken(ParseNat(Geometry[1])), Span)

\* C17 amended: an auto-computed thickness is the largest whole number of
\* pixels with which bars and gaps fit the span, but at least 1: a thickness
\* above 1 fits the span and one pixel more would not; a thickness of 1 is
\* emitted also when the span is too small for it, and then bars and gaps
\* exceed the span.
C17_AutoThicknessFitsOrIsOne ==
  AutoThickness =>
    /\ ParseNat(Geometry[1]) >= 1
    /\ ParseNat(Geometry[1]) > 1
         => RLe(SpaceTaken(ParseNat(Geometry[1])), Span)
    /\ RLt(Span, SpaceTaken(ParseNat(Geometry[1]) + 1))

\* two series of three bars, BarStyle(None, 3, 6), width 100, grouped
C17_Witness ==
  /\ AutoThickness
  /\ chart.vertical /\ ~chart.stacked
  /\ display._width = Num(100)
  /\ Param("chbh") = <<"1", "3", ",", "3", ",", "6">>

\* the axis is the left axis of a horizontal bar chart
IsInverted(c, name) == c.kind = "BarChart" /\ ~c.vertical /\ name = "left"

\* the labels (or label positions) of an axis in the order they are to be
\* emitted in
EmittedOrder(c, name, list) == IF IsInverted(c, name) THEN Reverse(list) ELSE list

\* the label parameter expected for the labelled axes from Python index i:
\* for each axis its index and a colon, then its labels
RECURSIVE ExpectedLabels(_, _)
ExpectedLabels(c, i) ==
  IF i >= Len(LabelledAxes(c)) THEN <<>>
  ELSE <<StrInt(i) \o <<":">>>>
         \o EmittedOrder(c, LabelledAxes(c)[i + 1][2],
                         c[LabelledAxes(c)[i + 1][2]].labels)
         \o ExpectedLabels(c, i + 1)

\* the entry of the position parameter expected for the labelled axis of
\* Python index i: its index, then its label positions
ExpectedPositions(c, i) ==
  LET name == LabelledAxes(c)[i + 1][2]
      positions == EmittedOrder(c, name, c[name].label_positions)
  IN  <<StrInt(i)>> \o [k \in 1..Len(positions) |-> str(positions[k])]

\* C18: the labels and label positions of the left axis of a horizontal bar
\* chart are emitted in reverse order, those of every other axis, of a
\* vertical bar chart and of every other chart type in their original
\* order; encoding does not reorder the caller's lists.
C18_LabelsReversedOnHorizontalBars ==
  /\ [][answer'.call # "none" => chart' = chart]_vars
  /\ [](ParamsReturned =>
          /\ Entries(Param("chxl"), "|") = ExpectedLabels(chart, 0)
          /\ \A i \in 0..(Len(LabelledAxes(chart)) - 1) :
               chart[LabelledAxes(chart)[i + 1][2]].label_positions # <<>> =>
                 \E k \in 1..Len(Entries(Param("chxp"), "|")) :
                   Split(Entries(Param("chxp"), "|")[k], ",")
                     = ExpectedPositions(chart, i)
          /\ \A k \in 1..Len(Entries(Param("chxp"), "|")) :
               \E i \in 0..(Len(LabelledAxes(chart)) - 1) :
                 Split(Entries(Param("chxp"), "|")[k], ",")
                   = ExpectedPositions(chart, i))

\* a horizontal bar chart whose left and bottom axes have the labels a, b at
\* the positions 1, 2
C18_Witness ==
  /\ ParamsReturned
  /\ chart.kind = "BarChart" /\ ~chart.vertical
  /\ chart.left.label_positions = <<Num(1), Num(2)>>
  /\ Param("chxl") = <<"0", ":", "|", "b", "|", "a", "|", "1", ":", "|", "a",
                       "|", "b">>
  /\ Param("chxp") = <<"0", ",", "2", ",", "1", "|", "1", ",", "1", ",", "2">>

-----------------------------------------------------------------------------
(* Pie charts (pie_chart.py)                                               *)
(*                                                                         *)
(* A segment is a series with one point, its size.  An operation on a pie  *)
(* chart is modelled as <<the chart after the call, the outcome>>.         *)

\* the most segments a pie chart gets
MaxSegments == 3

\* Segment(size, label, color)
Segment(size, label, color) ==
  IF RLt(size, Num(0)) THEN Raise("AssertionError")
  ELSE Return(DataSeries(<<size>>, color, None, <<>>, label))

\* a faulty _SetSize: the new size is stored before it is checked
_SetSize_storing_first(c, k, value) ==
  <<[c EXCEPT !.data[k].data[1] = value],
    IF RLt(value, Num(0)) THEN Raise("AssertionError") ELSE Return(None)>>

\* segment._SetSize(value) for the k-th segment of the chart
_SetSize(c, k, value) ==
  IF RLt(value, Num(0)) THEN <<c, Raise("AssertionError")>>
  ELSE <<[c EXCEPT !.data[k].data[1] = value], Return(None)>>

\* chart.AddSegment(size, label, color)
AddSegment(c, size, label, color) ==
  <<IF Raised(Segment(size, label, color)) THEN c
    ELSE [c EXCEPT !.data = Append(@, Segment(size, label, color).value)],
    Segment(size, label, color)>>

\* the loop of AddSegments over the points from Python index i
RECURSIVE AddSegmentsLoop(_, _, _, _, _)
AddSegmentsLoop(c, points, labels, colors, i) ==
  IF i >= Len(points) THEN <<c, Return(None)>>
  ELSE IF RLt(points[i + 1], Num(0)) THEN <<c, Raise("AssertionError")>>
  ELSE IF i >= Len(labels) THEN <<c, Raise("IndexError")>>
  ELSE AddSegmentsLoop(
         AddSegment(c, points[i + 1], labels[i + 1],
                    IF i < Len(colors) THEN colors[i + 1] ELSE None)[1],
         points, labels, colors, i + 1)

\* chart.AddSegments(points, labels, colors); no colors (None) is <<>>
AddSegments(c, points, labels, colors) ==
  AddSegmentsLoop(c, points, labels, colors, 0)

\* PieChart(points, labels, colors): <<the new chart, the outcome>>
PieChart(points, labels, colors) ==
  IF points = <<>>
  THEN <<[BaseChart("PieChart") EXCEPT !.formatters = <<>>], Return(None)>>
  ELSE AddSegments([BaseChart("PieChart") EXCEPT !.formatters = <<>>],
                   points, labels, colors)

-----------------------------------------------------------------------------
(* Specification of a pie chart: the caller builds pie charts, adds        *)
(* segments one at a time or several at once, assigns segment sizes, and   *)
(* encodes the chart with _Params.                                         *)

\* the sizes the caller gives a segment
PieSizeInputs == {Num(-5), Num(2)}

\* the sizes the caller assigns to a segment of the chart
NewSizeInputs == {Num(-5), Num(0), Num(3)}

\* the label and the color the caller gives a segment
PieLabelInputs == {<<None, None>>}

\* the points, labels and colors the caller gives PieChart and AddSegments
PieInputs ==
  {<<<<>>, <<>>, <<>>>>,
   <<<<Num(1), Num(2), Num(3)>>, <<<<"Mouse">>, <<"Cat">>, <<"Dog">>>>,
     <<<<"ff0000">>>>>>,
   <<<<Num(1), Num(-5)>>, <<<<"Mouse">>, <<"Negative">>>>, <<>>>>,
   <<<<Num(-5), Num(1)>>, <<<<"Negative">>, <<"Mouse">>>>, <<>>>>}

InitPie ==
  /\ CodecIdle
  /\ ScaleIdle
  /\ ShortenIdle
  /\ data = <<>>
  /\ pc = "start"
  /\ chart = PieChart(<<>>, <<>>, <<>>)[1]
  /\ display = ChartEncoder("PieChartEncoder")
  /\ answer = NoResult
  /\ threads = <<>>

\* what a call on a pie chart leaves alone
PieFrame == UNCHANGED <<data, pc, codecVars, scaleVars, shortenVars, threads>>

\* chart = google_chart_api.PieChart(points, labels, colors); when it raises
\* the caller keeps the chart it had
PieChartCall ==
  /\ \E in \in PieInputs :
       \E r \in {PieChart(in[1], in[2], in[3])} :
         /\ chart' = IF Raised(r[2]) THEN chart ELSE r[1]
         /\ display' = IF Raised(r[2]) THEN display
                       ELSE ChartEncoder("PieChartEncoder")
         /\ answer' = [call |-> "PieChart", outcome |-> r[2], sizes |-> in[1]]
  /\ PieFrame

\* pie_chart.Segment(size, label, color)
SegmentCall ==
  /\ \E size \in PieSizeInputs, lc \in PieLabelInputs :
       answer' = [call |-> "Segment",
                  outcome |-> Segment(size, lc[1], lc[2]),
                  sizes |-> <<size>>]
  /\ UNCHANGED <<chart, display>>
  /\ PieFrame

\* chart.AddSegment(size, label, color)
AddSegmentCall ==
  /\ Len(chart.data) < MaxSegments
  /\ \E size \in PieSizeInputs, lc \in PieLabelInputs :
       \E r \in {AddSegment(chart, size, lc[1], lc[2])} :
         /\ chart' = r[1]
         /\ answer' = [call |-> "AddSegment", outcome |-> r[2],
                       sizes |-> <<size>>]
  /\ UNCHANGED display
  /\ PieFrame

\* chart.AddSegments(points, labels, colors)
AddSegmentsCall ==
  /\ \E in \in PieInputs :
       /\ Len(chart.data) + Len(in[1]) <= MaxSegments
       /\ \E r \in {AddSegments(chart, in[1], in[2], in[3])} :
            /\ chart' = r[1]
            /\ answer' = [call |-> "AddSegments", outcome |-> r[2],
                          sizes |-> in[1]]
  /\ UNCHANGED display
  /\ PieFrame

\* chart.data[k - 1].size = value
SetSizeCall ==
  /\ \E k \in 1..Len(chart.data), value \in NewSizeInputs :
       \E r \in {_SetSize(chart, k, value)} :
         /\ chart' = r[1]
         /\ answer' = [call |-> "_SetSize", outcome |-> r[2],
                       sizes |-> <<value>>]
  /\ UNCHANGED display
  /\ PieFrame

NextPie ==
  \/ PieChartCall \/ SegmentCall \/ AddSegmentCall \/ AddSegmentsCall
  \/ SetSizeCall \/ SetEnhanced \/ ParamsCall

SpecPie == InitPie /\ [][NextPie]_vars

-----------------------------------------------------------------------------
(* Properties of pie charts                                                *)

\* the sizes of the segments, in chart order
PieSizes == [k \in 1..Len(chart.data) |-> chart.data[k].data[1]]

\* the largest size
Largest == RMax({PieSizes[k] : k \in 1..Len(PieSizes)})

\* the upper end of the range of the codec in use
CodecHi == EncoderObject(_GetDataEncoder(display, chart)).max

\* round(hi * s / largest) for a size s
SymbolIndex(s) ==
  Floor(RAdd(RDiv(RMul(Num(CodecHi), s), Largest), Rat(1, 2)))

\* the run expected for the segments: one symbol per segment, in chart order
ExpectedPieRun ==
  StrJoinStrings(<<>>, [k \in 1..Len(PieSizes) |->
                          Code(_GetDataEncoder(display, chart),
                               SymbolIndex(PieSizes[k]))])

SizeCalls == {"Segment", "PieChart", "AddSegment", "AddSegments", "_SetSize"}

\* the last call was given a negative size
GivenNegativeSize ==
  /\ answer.call \in SizeCalls
  /\ \E k \in 1..Len(answer.sizes) : RLt(answer.sizes[k], Num(0))

\* C20: after any sequence of PieChart constructions, AddSegment,
\* AddSegments and size assignments every segment of the chart has a size of
\* at least 0; a Segment, PieChart, AddSegment or AddSegments call given a
\* negative size and the assignment of a negative size raise AssertionError,
\* and a failed size assignment leaves the chart's segments as they were.
C20_SegmentSizesNeverNegative ==
  /\ [](\A k \in 1..Len(chart.data) : ~RLt(chart.data[k].data[1], Num(0)))
  /\ [](GivenNegativeSize => answer.outcome = Raise("AssertionError"))
  /\ [][(answer'.call = "_SetSize" /\ Raised(answer'.outcome))
          => chart' = chart]_vars

\* a negative size was assigned to a segment of the chart
C20_Witness ==
  /\ answer.call = "_SetSize"
  /\ GivenNegativeSize
  /\ chart.data # <<>>
  /\ answer.outcome = Raise("AssertionError")

-----------------------------------------------------------------------------
(* Specification of default data scaling: the caller builds a line or bar  *)
(* chart, adds series, replaces the points of a series, sets the buffer of *)
(* the auto_scale formatter and the bounds of the dependent axis, and      *)
(* encodes the chart with _Params.                                         *)

RescaleKinds == {"LineChart", "BarChart"}

\* the points the caller gives a series
RescaleInputs ==
  {<<Num(1), Num(2), Num(3)>>, <<Num(10), Num(20), Num(30)>>,
   <<Num(-5), None, Num(6)>>}

\* the values the caller gives chart.auto_scale.buffer
BufferInputs == {Num(0), Rat(5, 100)}

InitRescale ==
  /\ CodecIdle
  /\ ScaleIdle
  /\ ShortenIdle
  /\ data = <<>>
  /\ pc = "start"
  /\ \E kind \in RescaleKinds :
       /\ chart = BaseChart(kind)
       /\ display = ChartEncoder(DisplayClass(kind))
  /\ answer = NoResult
  /\ threads = <<>>

\* chart.AddLine(points) or chart.AddBars(points)
RescaleAddData ==
  /\ Len(chart.data) < MaxSeries
  /\ \E points \in RescaleInputs :
       LET style == IF chart.kind = "BarChart" THEN None ELSE LineStyleSolid
       IN  chart' = [chart EXCEPT !.data =
                       Append(@, DataSeries(points, None, style, <<>>, None))]
  /\ UNCHANGED display
  /\ ChangeFrame

\* chart.data[k].data = points
ReplaceData ==
  /\ \E k \in 1..Len(chart.data) : \E points \in RescaleInputs :
       chart' = [chart EXCEPT !.data[k].data = points]
  /\ chart' # chart
  /\ UNCHANGED display
  /\ ChangeFrame

\* chart.auto_scale.buffer = b
SetBuffer ==
  /\ \E b \in BufferInputs : chart' = [chart EXCEPT !.buffer = b]
  /\ chart' # chart
  /\ UNCHANGED display
  /\ ChangeFrame

NextRescale ==
  \/ RescaleAddData \/ ReplaceData \/ SetBuffer \/ BarsSetMin \/ BarsSetMax
  \/ ParamsCall

SpecRescale == InitRescale /\ [][NextRescale]_vars

\* the smallest and the largest point of the caller's chart
DataMin == RMin(AllPoints(chart))
DataMax == RMax(AllPoints(chart))

\* buffer times the range of the data
DataBuffer == RMul(chart.buffer, RSub(DataMax, DataMin))

\* the non-empty series of the caller's chart
SeriesData ==
  LET nonempty == SelectSeq(chart.data, LAMBDA s : s.data # <<>>)
  IN  [k \in 1..Len(nonempty) |-> nonempty[k].data]

\* the payload of the caller's series scaled from [lo, hi] to the range of
\* the codec in use
ScaledPayload(lo, hi) ==
  _EncodeData(chart, SeriesData, lo, hi, _GetDataEncoder(display, chart))
    .value.data

\* the bounds of the dependent axis of the caller's chart
CallerBounds ==
  <<chart[GetDependentAxis(chart)].min, chart[GetDependentAxis(chart)].max>>

-----------------------------------------------------------------------------
(* Specification of label separation: the caller builds a line chart, adds *)
(* a series, gives the right axis bounds, labels and label positions,      *)
(* adds a LabelSeparator to the formatters, changes its spacing, and       *)
(* encodes the chart with _Params.                                         *)

MaxLabels == 3

\* the positions the caller gives labels, in the scale of the axis
PositionDomain == {-1, 0, 1, 5, 9, 10}

LabelNames == <<<<"a">>, <<"b">>, <<"c">>, <<"d">>, <<"e">>>>

\* label positions running from the highest to the lowest, as in
\* testResolveLabelCollision
DescendingPositions ==
  UNION {{p \in [1..n -> PositionDomain] :
            \A i \in 1..(n - 1) : p[i] > p[i + 1]} : n \in 1..MaxLabels}

\* the spacings the caller asks the separator for
SpacingInputs == {Num(1), Num(4), Num(30)}

\* the bounds the caller gives the right axis
RightBoundInputs == {<<None, None>>, <<Num(0), Num(10)>>}

InitLabels ==
  /\ CodecIdle
  /\ ScaleIdle
  /\ ShortenIdle
  /\ data = <<>>
  /\ pc = "start"
  /\ chart = BaseChart("LineChart")
  /\ display = ChartEncoder("LineChartEncoder")
  /\ answer = NoResult
  /\ threads = <<>>

\* chart.AddLine([0, 10])
LabelsAddData ==
  /\ chart.data = <<>>
  /\ chart' = [chart EXCEPT !.data =
       <<DataSeries(<<Num(0), Num(10)>>, None, LineStyleSolid, <<>>, None)>>]
  /\ UNCHANGED display
  /\ ChangeFrame

\* chart.right.max = hi; chart.right.min = lo
SetRightBounds ==
  /\ \E b \in RightBoundInputs :
       chart' = [chart EXCEPT !.right.min = b[1], !.right.max = b[2]]
  /\ chart' # chart
  /\ UNCHANGED display
  /\ ChangeFrame

\* chart.right.labels = [...]; chart.right.label_positions = [...]
SetRightLabels ==
  /\ \E p \in DescendingPositions :
       chart' = [chart EXCEPT
                   !.right.labels = [k \in 1..Len(p) |-> LabelNames[k]],
                   !.right.label_positions = [k \in 1..Len(p) |-> Num(p[k])]]
  /\ chart' # chart
  /\ UNCHANGED display
  /\ ChangeFrame

\* separation = formatters.LabelSeparator(right=s);
\* chart.AddFormatter(separation)
AddSeparator ==
  /\ "separation" \notin DOMAIN chart
  /\ \E s \in SpacingInputs :
       chart' = Update([chart EXCEPT !.formatters =
                          Append(@, "LabelSeparator")],
                       [separation |->
                          [left |-> None, right |-> s, bottom |-> None]])
  /\ UNCHANGED display
  /\ ChangeFrame

\* separation.right = s
SetSeparation ==
  /\ "separation" \in DOMAIN chart
  /\ \E s \in SpacingInputs : chart' = [chart EXCEPT !.separation.right = s]
  /\ chart' # chart
  /\ UNCHANGED display
  /\ ChangeFrame

NextLabels ==
  \/ LabelsAddData \/ SetRightBounds \/ SetRightLabels \/ AddSeparator
  \/ SetSeparation \/ ParamsCall

SpecLabels == InitLabels /\ [][NextLabels]_vars

\* the positions the caller gave the labels of the right axis, and those
\* the encoder sees
OriginalPositions == chart.right.label_positions
ResolvedPositions == AtEncoding(chart).right.label_positions

PositionEntries(i) ==
  SelectSeq(Entries(Param("chxp"), "|"),
            LAMBDA e : Head(Split(e, ",")) = StrInt(i))

\* C23: on every chart type and orientation the labelled axis of index i
\* has an entry in the position parameter if and only if the axis has label
\* positions, so the parameter is empty when no labelled axis has positions.
C23_PositionEntryIffPositions ==
  ParamsReturned =>
    /\ \A i \in 0..(Len(LabelledAxes(chart)) - 1) :
         (PositionEntries(i) # <<>>)
           = (chart[LabelledAxes(chart)[i + 1][2]].label_positions # <<>>)
    /\ (\A i \in 0..(Len(LabelledAxes(chart)) - 1) :
          chart[LabelledAxes(chart)[i + 1][2]].label_positions = <<>>)
         => Param("chxp") = <<>>

-----------------------------------------------------------------------------
(* Specification of the style of a bar chart: the caller builds a bar      *)
(* chart, adds series, sets chart.style and chart.display.style, and       *)
(* encodes the chart with _Params.                                         *)

\* BarStyle(bar_thickness, bar_gap, group_gap)
BarStyle(bar_thickness, bar_gap, group_gap) ==
  <<bar_thickness, bar_gap, group_gap>>

\* BarChart.__init__: the style attribute is BarStyle(None, None, None)
BarChart ==
  Update(BaseChart("BarChart"), [style |-> BarStyle(None, None, None)])

\* the styles the caller gives chart.style
ChartStyleInputs ==
  {BarStyle(None, None, None), BarStyle(Num(10), Num(3), Num(6)),
   BarStyle(None, Num(3), Num(6)), BarStyle(Num(10), Num(1), None)}

InitChartStyle ==
  /\ CodecIdle
  /\ ScaleIdle
  /\ ShortenIdle
  /\ data = <<>>
  /\ pc = "start"
  /\ chart = BarChart
  /\ display = ChartEncoder("BarChartEncoder")
  /\ answer = NoResult
  /\ threads = <<>>

\* chart.style = style
SetChartStyle ==
  /\ \E style \in ChartStyleInputs : chart' = [chart EXCEPT !.style = style]
  /\ chart' # chart
  /\ UNCHANGED display
  /\ ChangeFrame

NextChartStyle ==
  \/ StyleAddBars \/ SetChartStyle \/ SetBarStyle \/ SetSize \/ ParamsCall

SpecChartStyle == InitChartStyle /\ [][NextChartStyle]_vars

\* the bar geometry an encoder emits for the chart when its style is the
\* given one
GeometryOfStyle(style) ==
  Get(_ApplyBarStyle([display EXCEPT !.style = style], chart).value,
      "bar_height", <<>>)

\* C24: the bar thickness and gaps emitted when a bar chart that has bars
\* is encoded are those of chart.style, with the unset values computed.
C24_GeometryIsThatOfChartStyle ==
  (ParamsReturned /\ TotalBars(chart.data) > 0) =>
    Param("chbh") = GeometryOfStyle(chart.style)

-----------------------------------------------------------------------------
(* Specification of line styles: the caller builds a line chart, adds      *)
(* lines with a pattern and series without a style, and encodes the chart  *)
(* with _Params.                                                           *)

\* LineStyle.DASHED
LineStyleDashed == <<Num(1), Num(8), Num(4)>>

\* the points of the series the caller adds
PatternSeriesInputs == {<<>>, <<Num(1), Num(2), Num(3)>>}

\* the styles of the series the caller adds: a pattern of AddLine, or None
\* for a DataSeries built with style=None
PatternInputs == {None, LineStyleSolid, LineStyleDashed}

InitPatterns ==
  /\ CodecIdle
  /\ ScaleIdle
  /\ ShortenIdle
  /\ data = <<>>
  /\ pc = "start"
  /\ chart = BaseChart("LineChart")
  /\ display = ChartEncoder("LineChartEncoder")
  /\ answer = NoResult
  /\ threads = <<>>

\* chart.AddLine(points, pattern=style), or
\* chart.data.append(DataSeries(points, style=None))
AddStyledSeries ==
  /\ Len(chart.data) < MaxSeries
  /\ \E points \in PatternSeriesInputs : \E style \in PatternInputs :
       chart' = [chart EXCEPT !.data =
                   Append(@, DataSeries(points, None, style, <<>>, None))]
  /\ UNCHANGED display
  /\ ChangeFrame

NextPatterns == AddStyledSeries \/ SetEnhanced \/ ParamsCall

SpecPatterns == InitPatterns /\ [][NextPatterns]_vars

\* among the non-empty series of the chart some have a style and some none
MixesStyles ==
  /\ \E k \in 1..Len(chart.data) :
       chart.data[k].data # <<>> /\ chart.data[k].style = None
  /\ \E k \in 1..Len(chart.data) :
       chart.data[k].data # <<>> /\ chart.data[k].style # None

\* C25: an encode of a chart whose non-empty series mix styled and unstyled
\* ones fails whatever the order of the series, and a non-empty line-style
\* parameter has one entry for each encoded series.
C25_MixedStylesFail ==
  answer.call = "_Params" =>
    /\ MixesStyles => Raised(answer.outcome)
    /\ (~Raised(answer.outcome) /\ Param("chls") # <<>>) =>
         Len(Entries(Param("chls"), "|")) = Len(NonEmpty(chart.data))

-----------------------------------------------------------------------------
(* Specification of the value range of a bar chart: the caller builds a    *)
(* bar chart, adds series, makes it stacked or grouped, and calls          *)
(* GetMinMaxValues.                                                        *)

\* the points of the series the caller adds
RangeSeriesInputs ==
  {<<>>, <<Num(1)>>, <<Num(10), None, Num(30)>>, <<Num(5), Num(-10)>>,
   <<Num(-15), Num(0), Num(-45)>>}

InitRange ==
  /\ CodecIdle
  /\ ScaleIdle
  /\ ShortenIdle
  /\ data = <<>>
  /\ pc = "start"
  /\ chart = BaseChart("BarChart")
  /\ display = ChartEncoder("BarChartEncoder")
  /\ answer = NoResult
  /\ threads = <<>>

\* chart.AddBars(points)
RangeAddBars ==
  /\ Len(chart.data) < MaxSeries
  /\ \E points \in RangeSeriesInputs :
       chart' = [chart EXCEPT !.data =
                   Append(@, DataSeries(points, None, None, <<>>, None))]
  /\ UNCHANGED display
  /\ ChangeFrame

\* chart.GetMinMaxValues()
GetMinMaxValuesCall ==
  /\ answer' = [call |-> "GetMinMaxValues", outcome |-> GetMinMaxValues(chart)]
  /\ UNCHANGED <<chart, display>>
  /\ EncodeFrame

NextRange == RangeAddBars \/ SetStacked \/ GetMinMaxValuesCall

SpecRange == InitRange /\ [][NextRange]_vars

\* the points present at bar position i whose sign is the given one
\* (1 or -1), as (series, point) pairs
SignedPointsAt(i, sign) ==
  {<<k, chart.data[k].data[i]>> :
     k \in {j \in 1..Len(chart.data) :
              /\ i <= Len(chart.data[j].data)
              /\ chart.data[j].data[i] # None
              /\ chart.data[j].data[i][1] * sign > 0}}

\* the sum of the points of a set of (series, point) pairs
RECURSIVE SumOfPairs(_)
SumOfPairs(S) ==
  IF S = {} THEN Num(0)
  ELSE LET e == CHOOSE e \in S : TRUE
       IN  RAdd(e[2], SumOfPairs(S \ {e}))

\* the bar positions of the chart
BarPositions ==
  UNION {DOMAIN chart.data[k].data : k \in 1..Len(chart.data)}

\* C26: GetMinMaxValues of a stacked bar chart with at least one bar
\* returns the smallest per-position sum of the negative points and the
\* largest per-position sum of the positive points, absent points ignored,
\* so the range contains 0; of a chart without series it returns
\* (None, None); of an unstacked chart it returns what the base chart
\* returns, the smallest and the largest point.
C26_StackedRangeIsSumOfSigns ==
  answer.call = "GetMinMaxValues" =>
    /\ chart.data = <<>> => answer.outcome = Return(<<None, None>>)
    /\ ~chart.stacked => answer.outcome = BaseGetMinMaxValues(chart)
    /\ (chart.stacked /\ chart.data # <<>> /\ BarPositions # {}) =>
         /\ answer.outcome =
              Return(<<RMin({SumOfPairs(SignedPointsAt(i, -1)) :
                               i \in BarPositions}),
                       RMax({SumOfPairs(SignedPointsAt(i, 1)) :
                               i \in BarPositions})>>)
         /\ RLe(answer.outcome.value[1], Num(0))
         /\ RLe(Num(0), answer.outcome.value[2])

\* stacked [10, None, 30] and [5, -10]: the positive sums are 15, 0, 30 and
\* the negative sums 0, -10, 0
C26_Witness ==
  /\ answer.call = "GetMinMaxValues"
  /\ chart.stacked
  /\ Len(chart.data) = 2
  /\ chart.data[1].data = <<Num(10), None, Num(30)>>
  /\ chart.data[2].data = <<Num(5), Num(-10)>>
  /\ answer.outcome = Return(<<Num(-10), Num(30)>>)

\* C27: encoding a bar chart that has series, all of them empty, returns a
\* mapping whose payload is the empty payload, whether the chart is stacked
\* or grouped, vertical or horizontal, and whatever its BarStyle is.
C27_AllEmptyBarChartEncodes ==
  (answer.call = "_Params" /\ chart.data # <<>>
     /\ \A k \in 1..Len(chart.data) : chart.data[k].data = <<>>) =>
    /\ ~Raised(answer.outcome)
    /\ Param("chd") = <<"s", ":">>

-----------------------------------------------------------------------------
(* Specification of the colors of a pie chart: the caller builds a pie     *)
(* chart, adds segments with or without a color, assigns segment colors    *)
(* one at a time or with SetColors, and encodes the chart with _Params.    *)

\* the colors the caller gives a segment
SegmentColorInputs == {None, <<"ff0000">>, <<"00ff00">>}

\* the colors the caller gives SetColors
SetColorsInputs == {None, <<"0000ff">>}

\* chart.SetColors(*colors): <<the chart after the call, the outcome>>
SetColors(c, colors) ==
  IF Len(colors) > Len(c.data) THEN <<c, Raise("AssertionError")>>
  ELSE <<[c EXCEPT !.data =
            [i \in 1..Len(@) |->
               [@[i] EXCEPT !.color = IF i > Len(colors) THEN None
                                      ELSE colors[i]]]],
         Return(None)>>

InitPieColors ==
  /\ CodecIdle
  /\ ScaleIdle
  /\ ShortenIdle
  /\ data = <<>>
  /\ pc = "start"
  /\ chart = PieChart(<<>>, <<>>, <<>>)[1]
  /\ display = ChartEncoder("PieChartEncoder")
  /\ answer = NoResult
  /\ threads = <<>>

\* chart.AddSegment(2, color=color)
AddColoredSegment ==
  /\ Len(chart.data) < MaxSegments
  /\ \E color \in SegmentColorInputs :
       \E r \in {AddSegment(chart, Num(2), None, color)} :
         /\ chart' = r[1]
         /\ answer' = [call |-> "AddSegment", outcome |-> r[2]]
  /\ UNCHANGED display
  /\ PieFrame

\* chart.data[k - 1].color = color
SetColorCall ==
  /\ \E k \in 1..Len(chart.data), color \in SegmentColorInputs :
       chart' = [chart EXCEPT !.data[k].color = color]
  /\ chart' # chart
  /\ answer' = [call |-> "_SetColor", outcome |-> Return(None)]
  /\ UNCHANGED display
  /\ PieFrame

\* chart.SetColors(*colors), with at most one color too many
SetColorsCall ==
  /\ \E n \in 0..(Len(chart.data) + 1) :
       \E colors \in [1..n -> SetColorsInputs] :
         \E r \in {SetColors(chart, colors)} :
           /\ chart' = r[1]
           /\ answer' = [call |-> "SetColors", outcome |-> r[2]]
  /\ UNCHANGED display
  /\ PieFrame

NextPieColors ==
  AddColoredSegment \/ SetColorCall \/ SetColorsCall \/ ParamsCall

SpecPieColors == InitPieColors /\ [][NextPieColors]_vars

\* C28: in pie encoding the k-th entry of the color list is the color of
\* the k-th segment of the chart, however the colors were assigned, also
\* when an earlier segment has no color and a later one has.
C28_ColorEntryIsColorOfItsSegment ==
  ParamsReturned =>
    /\ Len(Entries(Param("chco"), ",")) <= Len(chart.data)
    /\ \A k \in 1..Len(Entries(Param("chco"), ",")) :
         Entries(Param("chco"), ",")[k] = chart.data[k].color

\* C29: a failing call of AddSegments leaves the segments of the chart as
\* they were before the call.
C29_FailedAddSegmentsAddsNothing ==
  [][(answer'.call = "AddSegments" /\ Raised(answer'.outcome))
       => chart'.data = chart.data]_vars

\* C30: an encode of a bar chart whose dependent axis has neither bound at
\* encoding time emits no zero-point parameter.
C30_NoZeroPointOnUnsetBounds ==
  (ParamsReturned /\ DependentAtEncoding.min = None
     /\ DependentAtEncoding.max = None) =>
    "chp" \notin DOMAIN answer.outcome.value

====
